---------------------------- MODULE Spec2Model ----------------------------
(***************************************************************************)
(* A model of mocy's storage and list-query engine:                        *)
(*   src/src/storage/sqliteStore.ts   SqliteStore (records and singular    *)
(*                                    tables, import, CRUD, SQL queries)   *)
(*   src/unnamed/part_008             core/query.ts (parseListQuery,       *)
(*                                    applyListQuery)                      *)
(*   src/src/http/app.ts              the HTTP handlers                    *)
(*                                                                         *)
(* JavaScript strings are sequences of UTF-16 code units (integers), so    *)
(* that String(), Number(), JSON.stringify and the < of strings are        *)
(* computed, not assumed.  JSON numbers are integers here.                 *)
(***************************************************************************)
EXTENDS Integers, Sequences, FiniteSets, TLC

VARIABLES
  records,    \* table records: rows [resource, id, data] in rowid order
  singular,   \* table singular: resource -> object
  call,       \* the store call that has just returned, with the state it started from
  rows,       \* list evaluation: the records of one collection, in store order
  query,      \* list evaluation: the ListQuery
  memResult,  \* list evaluation: what applyListQuery returned
  sqlResult,  \* list evaluation: what queryCollection returned
  host,       \* file watching: "server" (watchFile), "mcp" (chokidar alone) or "none"
  proc,       \* file watching: "running", "closing" (watcher closed), "closed" (store closed)
              \* or "crashed" (ended by an unhandled rejection)
  now,        \* file watching: the time in ms
  timer,      \* file watching: watchFile's variable timer, the handle of the last timeout
  pending,    \* file watching: the timeouts that are armed, by the time they are due
  file,       \* file watching: what the source file holds
  reads,      \* file watching: the importFromJsonFile calls that are at their await
  events,     \* file watching: the times of the change events so far
  calls       \* file watching: the times at which onChange was called so far

vars == <<records, singular, call, rows, query, memResult, sqlResult,
          host, proc, now, timer, pending, file, reads, events, calls>>

watchVars == <<host, proc, now, timer, pending, file, reads, events, calls>>

\* no file is watched (options.watch is off)
NotWatching ==
  /\ host = "none"
  /\ proc = "running"
  /\ now = 0
  /\ timer = <<>>
  /\ pending = {}
  /\ file = [kind |-> "none", doc |-> <<>>]
  /\ reads = <<>>
  /\ events = <<>>
  /\ calls = <<>>

storeVars == <<records, singular, call>>

queryVars == <<rows, query, memResult, sqlResult>>

---------------------------------------------------------------------------
(* Strings *)

\* the code units the model's strings are written with
SP == <<32>>

QUOTE == <<34>>

COMMA == <<44>>

MINUS == <<45>>

COLON == <<58>>

LBRACKET == <<91>>

RBRACKET == <<93>>

LBRACE == <<123>>

RBRACE == <<125>>

\* "1", "2", "10", "a", "b", "x", "y"
S_1 == <<49>>

S_2 == <<50>>

S_3 == <<51>>

S_10 == <<49, 48>>

S_20 == <<50, 48>>

S_a == <<97>>

S_b == <<98>>

S_x == <<120>>

S_y == <<121>>

S_null == <<110, 117, 108, 108>>

S_true == <<116, 114, 117, 101>>

S_false == <<102, 97, 108, 115, 101>>

\* the keys "id", "title", "value", "views"
K_id == <<105, 100>>

K_title == <<116, 105, 116, 108, 101>>

K_value == <<118, 97, 108, 117, 101>>

K_views == <<118, 105, 101, 119, 115>>

\* leftString < rightRaw: JavaScript compares strings code unit by code unit
RECURSIVE StrLess(_, _)
StrLess(x, y) ==
  IF y = <<>> THEN FALSE
  ELSE IF x = <<>> THEN TRUE
  ELSE IF Head(x) # Head(y) THEN Head(x) < Head(y)
  ELSE StrLess(Tail(x), Tail(y))

RECURSIVE DigitsOf(_)
DigitsOf(n) ==
  IF n < 10 THEN <<48 + n>> ELSE DigitsOf(n \div 10) \o <<48 + (n % 10)>>

\* String(value) of an integer-valued number
NumberToString(n) == IF n < 0 THEN MINUS \o DigitsOf(0 - n) ELSE DigitsOf(n)

IsDigit(c) == c >= 48 /\ c <= 57

RECURSIVE TrimLeft(_)
TrimLeft(s) == IF s # <<>> /\ Head(s) = 32 THEN TrimLeft(Tail(s)) ELSE s

RECURSIVE TrimRight(_)
TrimRight(s) ==
  IF s # <<>> /\ s[Len(s)] = 32 THEN TrimRight(SubSeq(s, 1, Len(s) - 1)) ELSE s

\* value.trim()
Trim(s) == TrimRight(TrimLeft(s))

RECURSIVE DigitsValue(_, _)
DigitsValue(s, acc) ==
  IF s = <<>> THEN acc ELSE DigitsValue(Tail(s), 10 * acc + (Head(s) - 48))

NaN == [finite |-> FALSE, n |-> 0]

Finite(n) == [finite |-> TRUE, n |-> n]

\* the value of a run of digits, NaN when the text is anything else
DigitsToNumber(d) ==
  IF d # <<>> /\ \A i \in 1..Len(d) : IsDigit(d[i]) THEN Finite(DigitsValue(d, 0)) ELSE NaN

Negated(x) == IF x.finite THEN Finite(0 - x.n) ELSE NaN

\* Number(string) of a trimmed string
TrimmedToNumber(t) ==
  IF t = <<>> THEN Finite(0)
  ELSE IF Head(t) = 45 THEN Negated(DigitsToNumber(Tail(t)))
  ELSE DigitsToNumber(t)

\* Number(string) on strings of digits, "-", spaces and letters: surrounding
\* white space is dropped, the empty string is 0, an optionally signed run of
\* digits is its value, anything else is NaN
StringToNumber(s) == TrimmedToNumber(Trim(s))

---------------------------------------------------------------------------
(* JSON values: JsonValue of core/types.ts.  A value is a record of one    *)
(* shape; an object is a function from its keys to values.                 *)

Undefined == [t |-> "undefined", n |-> 0, s |-> <<>>, a |-> <<>>]

JNull == [t |-> "null", n |-> 0, s |-> <<>>, a |-> <<>>]

JBool(b) == [t |-> "boolean", n |-> IF b THEN 1 ELSE 0, s |-> <<>>, a |-> <<>>]

JNum(n) == [t |-> "number", n |-> n, s |-> <<>>, a |-> <<>>]

JStr(s) == [t |-> "string", n |-> 0, s |-> s, a |-> <<>>]

\* an array of scalars
JArr(a) == [t |-> "array", n |-> 0, s |-> <<>>, a |-> a]

EmptyObject == <<>>

HasKey(obj, k) == k \in DOMAIN obj

\* obj[k], undefined when the key is missing
Prop(obj, k) == IF HasKey(obj, k) THEN obj[k] ELSE Undefined

\* { ...obj, [k]: v }
WithKey(obj, k, v) == (k :> v) @@ obj

\* { ...a, ...b }
Spread(a, b) == b @@ a

RECURSIVE Join(_, _)
Join(parts, sep) ==
  IF parts = <<>> THEN <<>>
  ELSE IF Len(parts) = 1 THEN parts[1]
  ELSE parts[1] \o sep \o Join(Tail(parts), sep)

\* JSON.stringify of a scalar (strings of the model need no escaping)
JSONstringifyScalar(v) ==
  CASE v.t = "string" -> QUOTE \o v.s \o QUOTE
    [] v.t = "number" -> NumberToString(v.n)
    [] v.t = "boolean" -> IF v.n = 1 THEN S_true ELSE S_false
    [] OTHER -> S_null

\* JSON.stringify of a value
JSONstringify(v) ==
  IF v.t = "array"
  THEN LBRACKET \o Join([i \in 1..Len(v.a) |-> JSONstringifyScalar(v.a[i])], COMMA)
       \o RBRACKET
  ELSE JSONstringifyScalar(v)

\* the order in which JSON.stringify writes the keys of an object
KeyOrder == <<K_id, K_title, K_views, K_value>>

RECURSIVE SelectKeys(_, _)
SelectKeys(keys, obj) ==
  IF keys = <<>> THEN <<>>
  ELSE IF HasKey(obj, Head(keys))
       THEN <<Head(keys)>> \o SelectKeys(Tail(keys), obj)
       ELSE SelectKeys(Tail(keys), obj)

\* JSON.stringify of an object: the text of the data column
JSONstringifyObject(obj) ==
  LET ks == SelectKeys(KeyOrder, obj)
  IN LBRACE
     \o Join([i \in 1..Len(ks) |->
               QUOTE \o ks[i] \o QUOTE \o COLON \o JSONstringify(obj[ks[i]])], COMMA)
     \o RBRACE

\* toIdString
toIdString(value) ==
  CASE value.t = "string" -> value.s
    [] value.t = "number" -> NumberToString(value.n)
    [] value.t = "boolean" -> IF value.n = 1 THEN S_true ELSE S_false
    [] value.t \in {"null", "undefined"} -> <<>>
    [] OTHER -> JSONstringify(value)

---------------------------------------------------------------------------
(* The tables.  records has PRIMARY KEY(resource, id) and keeps its rows in *)
(* rowid order; the data column holds JSON.stringify(record), kept here as *)
(* the object that text denotes (JSONstringifyObject gives the text).      *)

MAX_GENERATED_ID_ATTEMPTS == 128

Row(resource, id, data) == [resource |-> resource, id |-> id, data |-> data]

\* the rows WHERE resource = ? AND id = ?, with the id bound as JSON text
RowIndexes_quotedId(recs, resource, id) ==
  {i \in 1..Len(recs) : recs[i].resource = resource /\ recs[i].id = QUOTE \o id \o QUOTE}

\* the rows WHERE resource = ? AND id = ?
RowIndexes(recs, resource, id) ==
  {i \in 1..Len(recs) : recs[i].resource = resource /\ recs[i].id = id}

\* INSERT INTO records: fails on the primary key
SqlInsert(recs, row) ==
  [ok |-> RowIndexes(recs, row.resource, row.id) = {},
   recs |-> IF RowIndexes(recs, row.resource, row.id) = {} THEN Append(recs, row)
            ELSE recs]

\* UPDATE records SET data = ? WHERE resource = ? AND id = ?
SqlUpdate(recs, resource, id, data) ==
  [i \in 1..Len(recs) |->
     IF recs[i].resource = resource /\ recs[i].id = id
     THEN Row(resource, id, data) ELSE recs[i]]

RECURSIVE SqlDeleteFrom(_, _, _)
SqlDeleteFrom(recs, resource, id) ==
  IF recs = <<>> THEN <<>>
  ELSE IF Head(recs).resource = resource /\ Head(recs).id = id
       THEN SqlDeleteFrom(Tail(recs), resource, id)
       ELSE <<Head(recs)>> \o SqlDeleteFrom(Tail(recs), resource, id)

\* DELETE FROM records WHERE id = ?
SqlDelete_anyResource(recs, resource, id) ==
  SelectSeq(recs, LAMBDA row : row.id # id)

\* DELETE FROM records WHERE resource = ? AND id = ?
SqlDelete(recs, resource, id) == SqlDeleteFrom(recs, resource, id)

NotFound == [found |-> FALSE, data |-> EmptyObject]

Found(data) == [found |-> TRUE, data |-> data]

\* get with WHERE id = ? alone
get_anyResource(recs, resource, id) ==
  LET hits == {i \in 1..Len(recs) : recs[i].id = id}
  IN IF hits = {} THEN NotFound
     ELSE Found(recs[CHOOSE i \in hits : \A j \in hits : i <= j].data)

\* SqliteStore.get
get(recs, resource, id) ==
  LET hits == RowIndexes(recs, resource, id)
  IN IF hits = {} THEN NotFound
     ELSE Found(recs[CHOOSE i \in hits : \A j \in hits : i <= j].data)

\* SqliteStore.getSingular
getSingular(sing, resource) ==
  IF resource \in DOMAIN sing THEN Found(sing[resource]) ELSE NotFound

\* SqliteStore.hasCollection
hasCollection(recs, resource) == \E i \in 1..Len(recs) : recs[i].resource = resource

\* SqliteStore.hasSingular
hasSingular(sing, resource) == resource \in DOMAIN sing

\* SqliteStore.list: the record values of a resource ORDER BY rowid
RECURSIVE list(_, _)
list(recs, resource) ==
  IF recs = <<>> THEN <<>>
  ELSE IF Head(recs).resource = resource
       THEN <<Head(recs).data>> \o list(Tail(recs), resource)
       ELSE list(Tail(recs), resource)

---------------------------------------------------------------------------
(* Id generation.  randomBytes is an input: a stream gives the candidate   *)
(* generateCandidateId returns at its n-th call (n from 0), c1 for the     *)
(* first k calls and c2 from then on.                                      *)

generateCandidateId(stream, n) == IF n < stream.k THEN stream.c1 ELSE stream.c2

\* generateUniqueId with attempt <= MAX_GENERATED_ID_ATTEMPTS
generateUniqueId_oneMore(recs, resource, stream) ==
  LET free == {attempt \in 0..MAX_GENERATED_ID_ATTEMPTS :
                 ~get(recs, resource, generateCandidateId(stream, attempt)).found}
      first == CHOOSE attempt \in free : \A other \in free : attempt <= other
  IN IF free # {}
     THEN [ok |-> TRUE, id |-> generateCandidateId(stream, first), draws |-> first + 1]
     ELSE [ok |-> FALSE, id |-> <<>>, draws |-> MAX_GENERATED_ID_ATTEMPTS + 1]

\* SqliteStore.generateUniqueId: the for loop returns at the first attempt
\* below MAX_GENERATED_ID_ATTEMPTS whose candidate get() does not find, and
\* throws when there is none
generateUniqueId(recs, resource, stream) ==
  LET free == {attempt \in 0..(MAX_GENERATED_ID_ATTEMPTS - 1) :
                 ~get(recs, resource, generateCandidateId(stream, attempt)).found}
      first == CHOOSE attempt \in free : \A other \in free : attempt <= other
  IN IF free # {}
     THEN [ok |-> TRUE, id |-> generateCandidateId(stream, first), draws |-> first + 1]
     ELSE [ok |-> FALSE, id |-> <<>>, draws |-> MAX_GENERATED_ID_ATTEMPTS]

\* generateUniqueImportId: the same loop over context.nextId() and
\* context.isTaken; pos counts the calls of nextId before this one
generateUniqueImportId(taken, stream, pos) ==
  LET free == {attempt \in 0..(MAX_GENERATED_ID_ATTEMPTS - 1) :
                 generateCandidateId(stream, pos + attempt) \notin taken}
      first == CHOOSE attempt \in free : \A other \in free : attempt <= other
  IN IF free # {}
     THEN [ok |-> TRUE, id |-> generateCandidateId(stream, pos + first), pos |-> pos + first + 1]
     ELSE [ok |-> FALSE, id |-> <<>>, pos |-> pos + MAX_GENERATED_ID_ATTEMPTS]

---------------------------------------------------------------------------
(* create, replace, patch, delete *)

Result(kind, value, recs) == [kind |-> kind, value |-> value, recs |-> recs]

\* SqliteStore.create; kind "duplicate" and "exhausted" are its two throws,
\* "constraint" the SqliteError of an INSERT the primary key rejects
create(recs, resource, input, stream) ==
  LET gen == IF ~HasKey(input, K_id)
             THEN generateUniqueId(recs, resource, stream)
             ELSE [ok |-> TRUE, id |-> toIdString(input[K_id]), draws |-> 0]
      newRecord == WithKey(input, K_id, JStr(gen.id))
  IN IF ~gen.ok
     THEN [kind |-> "exhausted", value |-> EmptyObject, recs |-> recs, draws |-> gen.draws]
     ELSE IF get(recs, resource, gen.id).found
     THEN [kind |-> "duplicate", value |-> EmptyObject, recs |-> recs, draws |-> gen.draws]
     ELSE IF ~SqlInsert(recs, Row(resource, gen.id, newRecord)).ok
     THEN [kind |-> "constraint", value |-> EmptyObject, recs |-> recs, draws |-> gen.draws]
     ELSE [kind |-> "value", value |-> newRecord,
           recs |-> SqlInsert(recs, Row(resource, gen.id, newRecord)).recs,
           draws |-> gen.draws]

\* current.id ?? id
IdOr(current, id) ==
  IF Prop(current, K_id).t \in {"undefined", "null"} THEN JStr(id) ELSE Prop(current, K_id)

\* replace with { id: currentId, ...input }: the id of the input wins
replace_inputIdWins(recs, resource, id, input) ==
  LET current == get(recs, resource, id)
      nextRecord == Spread((K_id :> JStr(toIdString(IdOr(current.data, id)))), input)
  IN IF ~current.found THEN Result("null", EmptyObject, recs)
     ELSE Result("value", nextRecord, SqlUpdate(recs, resource, id, nextRecord))

\* replace with { ...current, ...input, id }: the old fields stay
replace_keepsOldFields(recs, resource, id, input) ==
  LET current == get(recs, resource, id)
      nextRecord == WithKey(Spread(current.data, input), K_id,
                            JStr(toIdString(IdOr(current.data, id))))
  IN IF ~current.found THEN Result("null", EmptyObject, recs)
     ELSE Result("value", nextRecord, SqlUpdate(recs, resource, id, nextRecord))

\* SqliteStore.replace
replace(recs, resource, id, input) ==
  LET current == get(recs, resource, id)
      nextRecord == WithKey(input, K_id, JStr(toIdString(IdOr(current.data, id))))
  IN IF ~current.found THEN Result("null", EmptyObject, recs)
     ELSE Result("value", nextRecord, SqlUpdate(recs, resource, id, nextRecord))

\* patch with { ...patch, ...current, id }: the current fields win
patch_currentWins(recs, resource, id, partial) ==
  LET current == get(recs, resource, id)
      nextRecord == WithKey(Spread(partial, current.data), K_id,
                            JStr(toIdString(IdOr(current.data, id))))
  IN IF ~current.found THEN Result("null", EmptyObject, recs)
     ELSE Result("value", nextRecord, SqlUpdate(recs, resource, id, nextRecord))

\* SqliteStore.patch
patch(recs, resource, id, partial) ==
  LET current == get(recs, resource, id)
      nextRecord == WithKey(Spread(current.data, partial), K_id,
                            JStr(toIdString(IdOr(current.data, id))))
  IN IF ~current.found THEN Result("null", EmptyObject, recs)
     ELSE Result("value", nextRecord, SqlUpdate(recs, resource, id, nextRecord))

\* SqliteStore.delete
delete(recs, resource, id) ==
  LET existing == get(recs, resource, id)
  IN IF ~existing.found THEN Result("null", EmptyObject, recs)
     ELSE Result("value", existing.data, SqlDelete(recs, resource, id))

---------------------------------------------------------------------------
(* Import.  A document (DbSchema) is the sequence of its Object.entries:   *)
(* [resource, kind, items, obj], kind "array" (items: the entries),        *)
(* "object" (obj) or "other".  An array entry is an object (isObject, obj) *)
(* or another JSON value (val).                                            *)

ObjectEntry(obj) == [isObject |-> TRUE, obj |-> obj, val |-> JNull]

ValueEntry(val) == [isObject |-> FALSE, obj |-> EmptyObject, val |-> val]

ArrayOf(resource, items) ==
  [resource |-> resource, kind |-> "array", items |-> items, obj |-> EmptyObject]

ObjectOf(resource, obj) ==
  [resource |-> resource, kind |-> "object", items |-> <<>>, obj |-> obj]

OtherOf(resource) ==
  [resource |-> resource, kind |-> "other", items |-> <<>>, obj |-> EmptyObject]

\* a normalizeRecord that leaves the id of an object as it is given
normalizeRecord_givenId(value, fallbackId, taken, stream, pos) ==
  IF value.isObject
  THEN IF ~HasKey(value.obj, K_id)
       THEN LET gen == generateUniqueImportId(taken, stream, pos)
            IN [ok |-> gen.ok, id |-> gen.id, pos |-> gen.pos,
                record |-> WithKey(value.obj, K_id, JStr(gen.id))]
       ELSE [ok |-> TRUE,
             id |-> IF value.obj[K_id].t \in {"number", "string", "boolean"}
                    THEN toIdString(value.obj[K_id]) ELSE JSONstringify(value.obj[K_id]),
             pos |-> pos, record |-> value.obj]
  ELSE [ok |-> TRUE, id |-> fallbackId, pos |-> pos,
        record |-> (K_id :> JStr(fallbackId)) @@ (K_value :> value.val)]

\* normalizeRecord; taken, stream and pos are the IdGenerationContext
normalizeRecord(value, fallbackId, taken, stream, pos) ==
  IF value.isObject
  THEN IF ~HasKey(value.obj, K_id)
       THEN LET gen == generateUniqueImportId(taken, stream, pos)
            IN [ok |-> gen.ok, id |-> gen.id, pos |-> gen.pos,
                record |-> WithKey(value.obj, K_id, JStr(gen.id))]
       ELSE IF value.obj[K_id].t \in {"number", "string", "boolean"}
       THEN [ok |-> TRUE, id |-> toIdString(value.obj[K_id]), pos |-> pos,
             record |-> WithKey(value.obj, K_id, JStr(toIdString(value.obj[K_id])))]
       ELSE [ok |-> TRUE, id |-> JSONstringify(value.obj[K_id]), pos |-> pos,
             record |-> WithKey(value.obj, K_id, JStr(JSONstringify(value.obj[K_id])))]
  ELSE [ok |-> TRUE, id |-> fallbackId, pos |-> pos,
        record |-> (K_id :> JStr(fallbackId)) @@ (K_value :> value.val)]

\* the state inside an import transaction
Tx(ok, error, recs, sing, pos) ==
  [ok |-> ok, error |-> error, recs |-> recs, sing |-> sing, pos |-> pos]

Throw(tx, error) == [tx EXCEPT !.ok = FALSE, !.error = error]

\* value.forEach((entry, index) => ...) of importData, from entry i on (i = index + 1)
RECURSIVE importEntries(_, _, _, _, _, _)
importEntries(tx, resource, items, i, usedIds, stream) ==
  IF i > Len(items) THEN tx
  ELSE LET normalized == normalizeRecord(items[i], NumberToString(i), usedIds, stream, tx.pos)
           inserted == SqlInsert(tx.recs, Row(resource, normalized.id, normalized.record))
       IN IF ~normalized.ok THEN Throw(tx, "exhausted")
          ELSE IF normalized.id \in usedIds THEN Throw(tx, "duplicate")
          ELSE IF ~inserted.ok THEN Throw(tx, "constraint")
          ELSE importEntries([tx EXCEPT !.recs = inserted.recs, !.pos = normalized.pos],
                             resource, items, i + 1, usedIds \cup {normalized.id}, stream)

\* for (const [resource, value] of Object.entries(payload)), from entry i on
RECURSIVE importResources(_, _, _, _)
importResources(tx, doc, i, stream) ==
  IF i > Len(doc) \/ ~tx.ok THEN tx
  ELSE IF doc[i].kind = "array"
       THEN importResources(importEntries(tx, doc[i].resource, doc[i].items, 1, {}, stream),
                            doc, i + 1, stream)
       ELSE IF doc[i].kind = "object"
       THEN importResources([tx EXCEPT !.sing = (doc[i].resource :> doc[i].obj) @@ tx.sing],
                            doc, i + 1, stream)
       ELSE importResources(tx, doc, i + 1, stream)

\* a transaction that is not rolled back when fn throws
transaction_noRollback(before, after) == after

\* db.transaction(fn): what fn wrote is committed when fn returns and rolled
\* back when fn throws
transaction(before, after) ==
  IF after.ok THEN after ELSE Tx(FALSE, after.error, before.recs, before.sing, before.pos)

\* SqliteStore.importData: DELETE FROM both tables, then the inserts, in one transaction
importData(recs, sing, doc, stream) ==
  transaction(Tx(TRUE, "", recs, sing, 0),
              importResources(Tx(TRUE, "", <<>>, <<>>, 0), doc, 1, stream))

\* the ids a resource holds
IdsOf(recs, resource) == {recs[i].id : i \in {j \in 1..Len(recs) : recs[j].resource = resource}}

\* Merge mode: each entry is normalized as in importData and upserted by id; a
\* generated id is also checked against the ids the resource already holds
RECURSIVE mergeEntries(_, _, _, _, _, _)
mergeEntries(tx, resource, items, i, usedIds, stream) ==
  IF i > Len(items) THEN tx
  ELSE LET normalized == normalizeRecord(items[i], NumberToString(i),
                                         usedIds \cup IdsOf(tx.recs, resource), stream, tx.pos)
           upserted == IF get(tx.recs, resource, normalized.id).found
                       THEN SqlUpdate(tx.recs, resource, normalized.id, normalized.record)
                       ELSE SqlInsert(tx.recs, Row(resource, normalized.id, normalized.record)).recs
       IN IF ~normalized.ok THEN Throw(tx, "exhausted")
          ELSE IF normalized.id \in usedIds THEN Throw(tx, "duplicate")
          ELSE mergeEntries([tx EXCEPT !.recs = upserted, !.pos = normalized.pos],
                            resource, items, i + 1, usedIds \cup {normalized.id}, stream)

RECURSIVE mergeResources(_, _, _, _)
mergeResources(tx, doc, i, stream) ==
  IF i > Len(doc) \/ ~tx.ok THEN tx
  ELSE IF doc[i].kind = "array"
       THEN mergeResources(mergeEntries(tx, doc[i].resource, doc[i].items, 1, {}, stream),
                           doc, i + 1, stream)
       ELSE IF doc[i].kind = "object"
       THEN mergeResources([tx EXCEPT !.sing = (doc[i].resource :> doc[i].obj) @@ tx.sing],
                           doc, i + 1, stream)
       ELSE mergeResources(tx, doc, i + 1, stream)

\* a merge that empties the tables first, as Replace does
importDataMerge_deletesFirst(recs, sing, doc, stream) ==
  transaction(Tx(TRUE, "", recs, sing, 0),
              mergeResources(Tx(TRUE, "", <<>>, <<>>, 0), doc, 1, stream))

\* importData(input, 'merge'): nothing is deleted first
importDataMerge(recs, sing, doc, stream) ==
  transaction(Tx(TRUE, "", recs, sing, 0),
              mergeResources(Tx(TRUE, "", recs, sing, 0), doc, 1, stream))

---------------------------------------------------------------------------
(* The inputs of the store's calls *)

\* the table size the exploration stops at
MaxRows == 2

Resources == {"posts", "tags"}

ClientIds == {S_1, S_a}

Obj(idValue, titleValue) ==
  (IF idValue.t = "undefined" THEN EmptyObject ELSE (K_id :> idValue))
  @@ (IF titleValue.t = "undefined" THEN EmptyObject ELSE (K_title :> titleValue))

\* request bodies: with and without id (a number or a string), with and without title
Bodies ==
  {Obj(i, t) : i \in {Undefined, JNum(1), JStr(S_a)}, t \in {Undefined, JStr(S_x)}}

Stream(k, c1, c2) == [k |-> k, c1 |-> c1, c2 |-> c2]

\* random streams: one candidate once, for all attempts but the last, or for
\* all attempts, and the other one after it
Streams ==
  {Stream(k, c[1], c[2]) :
     k \in {1, MAX_GENERATED_ID_ATTEMPTS - 1, MAX_GENERATED_ID_ATTEMPTS},
     c \in {<<S_1, S_a>>, <<S_a, S_1>>}}

NoStream == Stream(0, S_a, S_a)

\* a call that generates no id reads no random bytes
StreamsFor(needsId) == IF needsId THEN Streams ELSE {NoStream}

Documents ==
  { <<ArrayOf("posts", <<ObjectEntry(Obj(JNum(1), JStr(S_x))), ObjectEntry(Obj(JStr(S_a), Undefined))>>)>>,
    <<ArrayOf("posts", <<ObjectEntry(Obj(Undefined, JStr(S_y)))>>),
      ObjectOf("profile", Obj(Undefined, JStr(S_x)))>>,
    <<ArrayOf("posts", <<ObjectEntry(Obj(JStr(S_1), JStr(S_y)))>>)>>,
    <<ArrayOf("tags", <<ValueEntry(JStr(S_x))>>)>>,
    <<ObjectOf("profile", Obj(Undefined, JStr(S_y))),
      ArrayOf("posts", <<ObjectEntry(Obj(JNum(1), Undefined)), ObjectEntry(Obj(JStr(S_1), JStr(S_x)))>>)>>,
    <<ArrayOf("posts", <<ObjectEntry(Obj(Undefined, JStr(S_x))), ObjectEntry(Obj(Undefined, Undefined))>>)>>,
    <<ArrayOf("tags", <<ObjectEntry(Obj(JNull, Undefined))>>), OtherOf("profile")>>,
    <<ArrayOf("posts", <<>>)>> }

DocNeedsId(doc) ==
  \E i \in 1..Len(doc) : \E j \in 1..Len(doc[i].items) :
     doc[i].items[j].isObject /\ ~HasKey(doc[i].items[j].obj, K_id)

---------------------------------------------------------------------------
(* The store as a state machine.  JavaScript runs one call at a time: a    *)
(* call starts when none is pending, runs to its end, and leaves in `call` *)
(* what it was given, what it returned and the tables it started from.     *)

NoCall ==
  [op |-> "none", resource |-> "", id |-> <<>>, input |-> EmptyObject, doc |-> <<>>,
   stream |-> NoStream, kind |-> "", value |-> EmptyObject, status |-> 0, draws |-> 0,
   before |-> [recs |-> <<>>, sing |-> <<>>]]

Called(op, resource, id, input, doc, stream, kind, value, status, draws) ==
  [op |-> op, resource |-> resource, id |-> id, input |-> input, doc |-> doc,
   stream |-> stream, kind |-> kind, value |-> value, status |-> status, draws |-> draws,
   before |-> [recs |-> records, sing |-> singular]]

Init ==
  /\ records = <<>>
  /\ singular = <<>>
  /\ call = NoCall
  /\ rows = <<>>
  /\ query = <<>>
  /\ memResult = <<>>
  /\ sqlResult = <<>>
  /\ NotWatching

\* importData(parsed), Replace mode
ImportData ==
  \E doc \in Documents : \E stream \in StreamsFor(DocNeedsId(doc)) :
    LET r == importData(records, singular, doc, stream)
    IN /\ call.op = "none"
       /\ Len(r.recs) <= MaxRows
       /\ records' = r.recs
       /\ singular' = r.sing
       /\ call' = Called("importData", "", <<>>, EmptyObject, doc, stream,
                         IF r.ok THEN "ok" ELSE r.error, EmptyObject, 0, r.pos)
       /\ UNCHANGED <<queryVars, watchVars>>

\* importData(parsed, 'merge')
ImportMerge ==
  \E doc \in Documents : \E stream \in StreamsFor(DocNeedsId(doc)) :
    LET r == importDataMerge(records, singular, doc, stream)
    IN /\ call.op = "none"
       /\ Len(r.recs) <= MaxRows
       /\ records' = r.recs
       /\ singular' = r.sing
       /\ call' = Called("importMerge", "", <<>>, EmptyObject, doc, stream,
                         IF r.ok THEN "ok" ELSE r.error, EmptyObject, 0, r.pos)
       /\ UNCHANGED <<queryVars, watchVars>>

\* store.create(resource, input)
Create ==
  \E resource \in Resources : \E input \in Bodies :
    \E stream \in StreamsFor(~HasKey(input, K_id)) :
      LET r == create(records, resource, input, stream)
      IN /\ call.op = "none"
         /\ Len(r.recs) <= MaxRows
         /\ records' = r.recs
         /\ call' = Called("create", resource, <<>>, input, <<>>, stream,
                           r.kind, r.value, 0, r.draws)
         /\ UNCHANGED <<singular, queryVars, watchVars>>

\* app.post('/:resource')
PostResource ==
  \E resource \in Resources : \E body \in Bodies :
    \E stream \in StreamsFor(~HasKey(body, K_id)) :
      LET r == create(records, resource, body, stream)
      IN /\ call.op = "none"
         /\ IF ~hasCollection(records, resource)
            THEN /\ call' = Called("post", resource, <<>>, body, <<>>, NoStream,
                                   "notFound", EmptyObject, 404, 0)
                 /\ UNCHANGED records
            ELSE /\ Len(r.recs) <= MaxRows
                 /\ records' = r.recs
                 /\ call' = Called("post", resource, <<>>, body, <<>>, stream, r.kind, r.value,
                                   IF r.kind = "value" THEN 201 ELSE 409, r.draws)
         /\ UNCHANGED <<singular, queryVars, watchVars>>

\* store.replace(resource, id, input)
Replace ==
  \E resource \in Resources : \E id \in ClientIds : \E input \in Bodies :
    LET r == replace(records, resource, id, input)
    IN /\ call.op = "none"
       /\ records' = r.recs
       /\ call' = Called("replace", resource, id, input, <<>>, NoStream, r.kind, r.value, 0, 0)
       /\ UNCHANGED <<singular, queryVars, watchVars>>

\* store.patch(resource, id, patch)
Patch ==
  \E resource \in Resources : \E id \in ClientIds : \E partial \in Bodies :
    LET r == patch(records, resource, id, partial)
    IN /\ call.op = "none"
       /\ records' = r.recs
       /\ call' = Called("patch", resource, id, partial, <<>>, NoStream, r.kind, r.value, 0, 0)
       /\ UNCHANGED <<singular, queryVars, watchVars>>

\* store.delete(resource, id)
Delete ==
  \E resource \in Resources : \E id \in ClientIds :
    LET r == delete(records, resource, id)
    IN /\ call.op = "none"
       /\ records' = r.recs
       /\ call' = Called("delete", resource, id, EmptyObject, <<>>, NoStream,
                         r.kind, r.value, 0, 0)
       /\ UNCHANGED <<singular, queryVars, watchVars>>

\* the caller takes the result; the next call can start
Return ==
  /\ call.op # "none"
  /\ call' = NoCall
  /\ UNCHANGED <<records, singular, queryVars, watchVars>>

Next ==
  \/ ImportData
  \/ ImportMerge
  \/ Create
  \/ PostResource
  \/ Replace
  \/ Patch
  \/ Delete
  \/ Return

Spec == Init /\ [][Next]_vars

---------------------------------------------------------------------------
(* Properties of the store *)

\* what a record given as `obj` is stored as under identity `id`
Stored(obj, id) == [k \in DOMAIN obj \cup {K_id} |-> IF k = K_id THEN JStr(id) ELSE obj[k]]

\* the identity import gives to entry j of an array, when the entry or its
\* position decides it
EntryId(entry, j) ==
  IF ~entry.isObject THEN NumberToString(j)
  ELSE IF entry.obj[K_id].t \in {"number", "string", "boolean"} THEN toIdString(entry.obj[K_id])
  ELSE JSONstringify(entry.obj[K_id])

EntryHasId(entry) == ~entry.isObject \/ HasKey(entry.obj, K_id)

\* what entry j of an array is stored as
EntryRecord(entry, j) ==
  IF entry.isObject THEN Stored(entry.obj, EntryId(entry, j))
  ELSE (K_id :> JStr(NumberToString(j))) @@ (K_value :> entry.val)

\* the ids a document names for a resource
MentionedIds(doc, resource) ==
  {EntryId(doc[d].items[j], j) :
     d \in {x \in 1..Len(doc) : doc[x].kind = "array" /\ doc[x].resource = resource},
     j \in {y \in 1..MaxRows + 2 :
              \E x \in 1..Len(doc) : /\ doc[x].kind = "array" /\ doc[x].resource = resource
                                     /\ y <= Len(doc[x].items)
                                     /\ EntryHasId(doc[x].items[y])}}

\* C2: after any sequence of importData, create, replace, patch and delete
\* calls, failing ones included, no resource holds two records with the same
\* id, neither as row identity nor as the id its value carries
C2_UniqueIds ==
  \A i, j \in 1..Len(records) :
    (i # j /\ records[i].resource = records[j].resource)
      => /\ records[i].id # records[j].id
         /\ Prop(records[i].data, K_id) # Prop(records[j].data, K_id)

\* a create with a client-supplied id failed on a table that holds two rows
C2_Witness ==
  /\ call.op = "create"
  /\ call.kind = "duplicate"
  /\ Len(records) = 2

\* C3: every stored record's value has the key "id", and its value is the
\* string under which the record is stored
C3_IdMirrored ==
  \A i \in 1..Len(records) :
    /\ HasKey(records[i].data, K_id)
    /\ records[i].data[K_id] = JStr(records[i].id)

\* a replace or patch whose input carried another id than the record's
C3_Witness ==
  /\ call.op \in {"replace", "patch"}
  /\ call.kind = "value"
  /\ HasKey(call.input, K_id)
  /\ toIdString(call.input[K_id]) # call.id

\* C4: a successful Merge import stores every entry of the document under its
\* id (overwriting the record that had the id, inserting when none had), and
\* every record whose id the document does not name is still there, unchanged
C4_MergeUpserts ==
  (call.op = "importMerge" /\ call.kind = "ok") =>
    /\ \A d \in 1..Len(call.doc) : \A j \in 1..Len(call.doc[d].items) :
         LET entry == call.doc[d].items[j]
             resource == call.doc[d].resource
         IN IF EntryHasId(entry)
            THEN get(records, resource, EntryId(entry, j)) = Found(EntryRecord(entry, j))
            ELSE \E i \in 1..Len(records) :
                   /\ records[i].resource = resource
                   /\ records[i].id \notin IdsOf(call.before.recs, resource)
                   /\ records[i].data = Stored(entry.obj, records[i].id)
    /\ \A i \in 1..Len(call.before.recs) :
         LET row == call.before.recs[i]
         IN row.id \notin MentionedIds(call.doc, row.resource)
              => get(records, row.resource, row.id) = Found(row.data)

\* a merge overwrote one record and left another one, which the document does
\* not name, in place
C4_Witness ==
  /\ call.op = "importMerge"
  /\ call.kind = "ok"
  /\ \E i, j \in 1..Len(call.before.recs) :
       /\ call.before.recs[i].id \notin MentionedIds(call.doc, call.before.recs[i].resource)
       /\ call.before.recs[j].id \in MentionedIds(call.doc, call.before.recs[j].resource)
       /\ get(records, call.before.recs[j].resource, call.before.recs[j].id)
            # Found(call.before.recs[j].data)

\* C5: a Replace import that succeeds leaves exactly the document's records
\* (in the document's order) and singular objects; one that fails leaves both
\* tables as they were
C5_ReplaceAllOrNothing ==
  call.op = "importData" =>
    IF call.kind = "ok"
    THEN /\ \A i \in 1..Len(records) :
              \E d \in 1..Len(call.doc) :
                 call.doc[d].kind = "array" /\ call.doc[d].resource = records[i].resource
         /\ \A d \in 1..Len(call.doc) : call.doc[d].kind = "array" =>
              LET stored == list(records, call.doc[d].resource)
              IN /\ Len(stored) = Len(call.doc[d].items)
                 /\ \A j \in 1..Len(stored) :
                      LET entry == call.doc[d].items[j]
                      IN IF EntryHasId(entry) THEN stored[j] = EntryRecord(entry, j)
                         ELSE /\ HasKey(stored[j], K_id)
                              /\ stored[j] = Stored(entry.obj, stored[j][K_id].s)
         /\ DOMAIN singular = {call.doc[d].resource :
                                 d \in {x \in 1..Len(call.doc) : call.doc[x].kind = "object"}}
         /\ \A d \in 1..Len(call.doc) :
              call.doc[d].kind = "object" => singular[call.doc[d].resource] = call.doc[d].obj
    ELSE /\ records = call.before.recs
         /\ singular = call.before.sing

\* a Replace import failed on a store that held records
C5_Witness ==
  /\ call.op = "importData"
  /\ call.kind = "duplicate"
  /\ call.before.recs # <<>>

\* C6: create with a client-supplied id fails with the duplicate-id error
\* (status 409 over HTTP), draws no candidate and changes nothing when the
\* resource holds that id, and succeeds when only another resource holds it
C6_DuplicateClientId ==
  (call.op \in {"create", "post"} /\ call.kind # "notFound" /\ HasKey(call.input, K_id)) =>
    IF toIdString(call.input[K_id]) \in IdsOf(call.before.recs, call.resource)
    THEN /\ call.kind = "duplicate"
         /\ call.draws = 0
         /\ records = call.before.recs
         /\ singular = call.before.sing
         /\ call.op = "post" => call.status = 409
    ELSE /\ call.kind = "value"
         /\ call.op = "post" => call.status = 201

\* a POST with an id the resource already holds was answered
C6_Witness ==
  /\ call.op = "post"
  /\ call.kind = "duplicate"
  /\ HasKey(call.input, K_id)

\* C7: create without id stores the record under the first candidate, among at
\* most MAX_GENERATED_ID_ATTEMPTS, that is not an id of the resource; when all
\* of them are, it fails and stores nothing
C7_GeneratedId ==
  (call.op \in {"create", "post"} /\ call.kind # "notFound" /\ ~HasKey(call.input, K_id)) =>
    LET taken == IdsOf(call.before.recs, call.resource)
        candidate(n) == generateCandidateId(call.stream, n)
    IN /\ call.draws <= MAX_GENERATED_ID_ATTEMPTS
       /\ call.kind \in {"value", "exhausted"}
       /\ call.kind = "value" =>
            /\ call.draws >= 1
            /\ call.value = Stored(call.input, candidate(call.draws - 1))
            /\ candidate(call.draws - 1) \notin taken
            /\ \A n \in 0..(call.draws - 2) : candidate(n) \in taken
            /\ records = Append(call.before.recs,
                                Row(call.resource, candidate(call.draws - 1), call.value))
       /\ call.kind = "exhausted" =>
            /\ call.draws = MAX_GENERATED_ID_ATTEMPTS
            /\ \A n \in 0..(MAX_GENERATED_ID_ATTEMPTS - 1) : candidate(n) \in taken
            /\ records = call.before.recs

\* a create succeeded with its last attempt, after every earlier candidate collided
C7_Witness ==
  /\ call.op = "create"
  /\ call.kind = "value"
  /\ ~HasKey(call.input, K_id)
  /\ call.draws = MAX_GENERATED_ID_ATTEMPTS

\* C8: replace of an existing record makes get return the input with its id
\* forced to the record's id, and nothing of the old value; replace of a
\* missing id returns absent and changes nothing
C8_Replace ==
  call.op = "replace" =>
    IF get(call.before.recs, call.resource, call.id).found
    THEN /\ call.kind = "value"
         /\ get(records, call.resource, call.id) = Found(Stored(call.input, call.id))
         /\ call.value = Stored(call.input, call.id)
    ELSE /\ call.kind = "null"
         /\ records = call.before.recs
         /\ singular = call.before.sing

\* a replace dropped a field of the old value and ignored the id of its input
C8_Witness ==
  /\ call.op = "replace"
  /\ call.kind = "value"
  /\ HasKey(get(call.before.recs, call.resource, call.id).data, K_title)
  /\ ~HasKey(call.input, K_title)
  /\ HasKey(call.input, K_id)
  /\ toIdString(call.input[K_id]) # call.id

\* C9: patch of an existing record stores and returns the current value with
\* every key of the partial overwritten and the id kept; patch of a missing id
\* returns absent and changes nothing
C9_Patch ==
  call.op = "patch" =>
    LET current == get(call.before.recs, call.resource, call.id)
        merged == [k \in DOMAIN current.data \cup DOMAIN call.input \cup {K_id} |->
                     IF k = K_id THEN JStr(call.id)
                     ELSE IF k \in DOMAIN call.input THEN call.input[k]
                     ELSE current.data[k]]
    IN IF current.found
       THEN /\ call.kind = "value"
            /\ call.value = merged
            /\ get(records, call.resource, call.id) = Found(merged)
       ELSE /\ call.kind = "null"
            /\ records = call.before.recs
            /\ singular = call.before.sing

\* a patch overwrote the title and was given another id than the record's
C9_Witness ==
  /\ call.op = "patch"
  /\ call.kind = "value"
  /\ HasKey(call.input, K_title)
  /\ Prop(get(call.before.recs, call.resource, call.id).data, K_title) = JStr(S_y)
  /\ HasKey(call.input, K_id)
  /\ toIdString(call.input[K_id]) # call.id

\* C10: delete of an existing record returns its value, get finds it no more,
\* and every other row of either table is as before; delete of a missing id
\* returns absent and changes nothing
C10_Delete ==
  call.op = "delete" =>
    LET existing == get(call.before.recs, call.resource, call.id)
    IN IF existing.found
       THEN /\ call.kind = "value"
            /\ call.value = existing.data
            /\ ~get(records, call.resource, call.id).found
            /\ records = SelectSeq(call.before.recs,
                                   LAMBDA row : ~(row.resource = call.resource /\ row.id = call.id))
            /\ singular = call.before.sing
       ELSE /\ call.kind = "null"
            /\ records = call.before.recs
            /\ singular = call.before.sing

\* a delete removed a record while another resource held a record of the same id
C10_Witness ==
  /\ call.op = "delete"
  /\ call.kind = "value"
  /\ \E i \in 1..Len(records) :
       records[i].id = call.id /\ records[i].resource # call.resource

---------------------------------------------------------------------------
(* List evaluation.  matchFilter, compareComparable, getPath, asNumber and *)
(* stringifyValue of sqliteStore.ts are, line for line, the functions of   *)
(* the same names (stringify for the last) of core/query.ts; one           *)
(* definition stands for both copies.                                      *)

DOT == <<46>>

PERCENT == <<37>>

UNDERSCORE == <<95>>

BACKSLASH == <<92>>

\* "É" and "é"
S_Eacute == <<201>>

S_eacute == <<233>>

Sign(n) == IF n < 0 THEN -1 ELSE IF n > 0 THEN 1 ELSE 0

\* getPath on records whose values are scalars or arrays of scalars: the
\* first part of the path selects a key of the record, and any further part
\* meets a value that is no object
getPath(source, path) ==
  IF \E i \in 1..Len(path) : path[i] = DOT[1] THEN Undefined ELSE Prop(source, path)

\* stringifyValue (stringify in core/query.ts)
stringifyValue(value) ==
  CASE value.t = "undefined" -> <<>>
    [] value.t = "null" -> S_null
    [] value.t = "array" -> JSONstringify(value)
    [] value.t = "string" -> value.s
    [] value.t = "number" -> NumberToString(value.n)
    [] OTHER -> IF value.n = 1 THEN S_true ELSE S_false

\* asNumber
asNumber(value) ==
  IF value.t = "number" THEN Finite(value.n)
  ELSE IF value.t = "string" /\ Trim(value.s) # <<>> THEN StringToNumber(value.s)
  ELSE NaN

\* compareComparable, once leftNumber, rightNumber and leftString are known
compareWith(leftNumber, rightNumber, leftString, rightRaw) ==
  IF leftNumber.finite /\ rightNumber.finite THEN leftNumber.n - rightNumber.n
  ELSE IF StrLess(leftString, rightRaw) THEN -1
  ELSE IF StrLess(rightRaw, leftString) THEN 1
  ELSE 0

\* compareComparable
compareComparable(left, rightRaw) ==
  compareWith(asNumber(left), StringToNumber(rightRaw), stringifyValue(left), rightRaw)

\* a switch whose ne passes when the text differs from some candidate
matchOp_neSome(op, candidates, text, compared) ==
  CASE op = "eq" -> \E i \in candidates : text = i
    [] op = "ne" -> \E i \in candidates : text # i
    [] op = "lt" -> \E i \in candidates : compared[i] < 0
    [] op = "lte" -> \E i \in candidates : compared[i] <= 0
    [] op = "gt" -> \E i \in candidates : compared[i] > 0
    [] op = "gte" -> \E i \in candidates : compared[i] >= 0
    [] OTHER -> FALSE

\* the switch of matchFilter, for a value that is no array, given its text
\* and its comparison with every candidate
matchOp(op, candidates, text, compared) ==
  CASE op = "eq" -> \E i \in candidates : text = i
    [] op = "ne" -> \A i \in candidates : text # i
    [] op = "lt" -> \E i \in candidates : compared[i] < 0
    [] op = "lte" -> \E i \in candidates : compared[i] <= 0
    [] op = "gt" -> \E i \in candidates : compared[i] > 0
    [] op = "gte" -> \E i \in candidates : compared[i] >= 0
    [] OTHER -> FALSE

\* matchFilter on the entries of an array, or on the one value that is none
matchEntries(entries, filter, candidates) ==
  \E e \in 1..Len(entries) :
     matchOp(filter.op, candidates, stringifyValue(entries[e]),
             [i \in candidates |-> compareComparable(entries[e], i)])

\* matchFilter
matchFilter(value, filter) ==
  matchEntries(IF value.t = "array" THEN value.a ELSE <<value>>, filter,
               {filter.values[i] : i \in 1..Len(filter.values)})

\* filters of which one is enough
passesFilters_some(row, filters) ==
  \E i \in 1..Len(filters) : matchFilter(getPath(row, filters[i].field), filters[i])

\* passesFilters
passesFilters(row, filters) ==
  \A i \in 1..Len(filters) : matchFilter(getPath(row, filters[i].field), filters[i])

\* a direction that is the first of the order for every sort field
Direction_first(order, index) == IF Len(order) >= 1 THEN order[1] ELSE "asc"

\* order[index] ?? order[0] ?? 'asc' (index counted from 1 here)
Direction(order, index) ==
  IF index <= Len(order) THEN order[index]
  ELSE IF Len(order) >= 1 THEN order[1]
  ELSE "asc"

\* compareRows, from the sort field at `index` on
RECURSIVE compareRowsFrom(_, _, _, _, _)
\* the step of compareRows for one sort field, given what it compared to
compareRowsStep(compared, a, b, sortFields, order, index) ==
  IF compared # 0
  THEN IF Direction(order, index) = "desc" THEN 0 - compared ELSE compared
  ELSE compareRowsFrom(a, b, sortFields, order, index + 1)

compareRowsFrom(a, b, sortFields, order, index) ==
  IF index > Len(sortFields)
  THEN compareComparable(getPath(a, K_id), stringifyValue(getPath(b, K_id)))
  ELSE compareRowsStep(compareComparable(getPath(a, sortFields[index]),
                                         stringifyValue(getPath(b, sortFields[index]))),
                       a, b, sortFields, order, index)

\* compareRows
compareRows(a, b, sortFields, order) == compareRowsFrom(a, b, sortFields, order, 1)

\* the orders of n elements
Orderings(n) == {p \in [1..n -> 1..n] : \A i, j \in 1..n : i # j => p[i] # p[j]}

Reordered(data, p) == [i \in 1..Len(data) |-> data[p[i]]]

\* ECMAScript's "consistent comparator": c[i][j] is the sign of the
\* comparison of elements i and j
ConsistentComparator(S, c) ==
  /\ \A i \in S : c[i][i] = 0
  /\ \A i, j \in S : c[i][j] = 0 - c[j][i]
  /\ \A i, j, k \in S : (c[i][j] = 0 /\ c[j][k] = 0) => c[i][k] = 0
  /\ \A i, j, k \in S : (c[i][j] < 0 /\ c[j][k] < 0) => c[i][k] < 0
  /\ \A i, j, k \in S : (c[i][j] < 0 /\ c[j][k] = 0) => c[i][k] < 0
  /\ \A i, j, k \in S : (c[i][j] = 0 /\ c[j][k] < 0) => c[i][k] < 0

\* the outcomes of data.sort(cmp): the stable sorted order when the
\* comparator is consistent on data, and an order the engine chooses when it
\* is not
SortOutcomes(data, c) ==
  IF ConsistentComparator(1..Len(data), c)
  THEN {Reordered(data, p) : p \in {q \in Orderings(Len(data)) :
          \A i, j \in 1..Len(data) :
             i < j => \/ c[q[i]][q[j]] < 0
                      \/ (c[q[i]][q[j]] = 0 /\ q[i] < q[j])}}
  ELSE {Reordered(data, p) : p \in Orderings(Len(data))}

\* [...data].sort((a, b) => compareRows(a, b, sortFields, order))
ArraySort(data, sortFields, order) ==
  SortOutcomes(data, [i \in 1..Len(data) |-> [j \in 1..Len(data) |->
                        Sign(compareRows(data[i], data[j], sortFields, order))]])

\* String.prototype.toLowerCase on the model's code units: A-Z, and the
\* capital letters of Latin-1
toLowerCase(s) ==
  [i \in 1..Len(s) |->
     IF (s[i] >= 65 /\ s[i] <= 90) \/ (s[i] >= 192 /\ s[i] <= 222 /\ s[i] # 215)
     THEN s[i] + 32 ELSE s[i]]

\* haystack.includes(term)
Includes(haystack, term) ==
  \E i \in 0..(Len(haystack) - Len(term)) :
     \A j \in 1..Len(term) : haystack[i + j] = term[j]

\* array.slice(start, end) for 0 <= start <= end
Slice(data, start, end) ==
  SubSeq(data, start + 1, IF end < Len(data) THEN end ELSE Len(data))

Max(a, b) == IF a >= b THEN a ELSE b

Min(a, b) == IF a <= b THEN a ELSE b

\* an optional field: <<>> when undefined, <<v>> when v
Some(v) == <<v>>

None == <<>>

\* a ?? b
OrElse(a, b) == IF a # None THEN a ELSE b

ListResult(data, total, page, perPage) ==
  [data |-> data, total |-> total, page |-> page, perPage |-> perPage]

\* data.slice(0, Math.max(0, query.limit)) when there is a limit
Limited(ranged, q) ==
  IF q.limit # None THEN Slice(ranged, 0, Max(0, q.limit[1])) ELSE ranged

\* data.slice(start, end) when there is a start or an end
Ranged(data, q, start) ==
  IF q.start = None /\ q.end = None THEN data
  ELSE IF q.end # None THEN Slice(data, start, Max(start, q.end[1]))
  ELSE Slice(data, start, Len(data))

\* a page whose total is counted after the slice
PageOf_totalOfPage(data, page, perPage) ==
  ListResult(Slice(data, (page - 1) * perPage, (page - 1) * perPage + perPage),
             Len(Slice(data, (page - 1) * perPage, (page - 1) * perPage + perPage)),
             Some(page), Some(perPage))

\* the page of applyListQuery
PageOf(data, page, perPage) ==
  ListResult(Slice(data, (page - 1) * perPage, (page - 1) * perPage + perPage),
             Len(data), Some(page), Some(perPage))

\* the page or range of applyListQuery, taken from the sorted data
Paginate(data, q) ==
  IF q.page # None
  THEN PageOf(data, Max(1, q.page[1]),
              Max(1, OrElse(q.perPage, OrElse(q.limit, Some(10)))[1]))
  ELSE ListResult(Limited(Ranged(data, q, Max(0, OrElse(q.start, Some(0))[1])), q),
                  Len(data), None, None)

\* data.filter(row => JSON.stringify(row).toLowerCase().includes(term))
Searched(filtered, q) ==
  IF q.q # None /\ q.q[1] # <<>>
  THEN SelectSeq(filtered,
         LAMBDA row : Includes(toLowerCase(JSONstringifyObject(row)), toLowerCase(q.q[1])))
  ELSE filtered

\* the sorted data: the orders the sort can leave it in
Sorted(searched, q) ==
  IF Len(q.sort) > 0 THEN ArraySort(searched, q.sort, q.order) ELSE {searched}

\* applyListQuery: the results the call can return (one, unless the sort is
\* given an inconsistent comparator)
applyListQuery(input, q) ==
  {Paginate(data, q) :
     data \in Sorted(Searched(SelectSeq(input, LAMBDA row : passesFilters(row, q.filters)), q), q)}

\* escapeLikePattern
RECURSIVE escapeLikePattern(_)
escapeLikePattern(value) ==
  IF value = <<>> THEN <<>>
  ELSE IF Head(value) \in {BACKSLASH[1], PERCENT[1], UNDERSCORE[1]}
       THEN BACKSLASH \o <<Head(value)>> \o escapeLikePattern(Tail(value))
       ELSE <<Head(value)>> \o escapeLikePattern(Tail(value))

\* SQLite's LOWER(): the letters A-Z only
SqlLower(s) == [i \in 1..Len(s) |-> IF s[i] >= 65 /\ s[i] <= 90 THEN s[i] + 32 ELSE s[i]]

\* SQLite's text LIKE pattern ESCAPE '\': % is any run, _ any one character,
\* an escaped character is itself, and letters A-Z match in either case
RECURSIVE SqlLike(_, _)
SqlLike(text, pattern) ==
  IF pattern = <<>> THEN text = <<>>
  ELSE IF Head(pattern) = PERCENT[1]
       THEN \E i \in 0..Len(text) : SqlLike(SubSeq(text, i + 1, Len(text)), Tail(pattern))
  ELSE IF text = <<>> THEN FALSE
  ELSE IF Head(pattern) = UNDERSCORE[1] THEN SqlLike(Tail(text), Tail(pattern))
  ELSE IF Head(pattern) = BACKSLASH[1] /\ Len(pattern) >= 2
       THEN Head(text) = pattern[2] /\ SqlLike(Tail(text), SubSeq(pattern, 3, Len(pattern)))
  ELSE /\ SqlLower(<<Head(text)>>) = SqlLower(<<Head(pattern)>>)
       /\ SqlLike(Tail(text), Tail(pattern))

\* addFilterClauses: the WHERE clause, as a predicate on the data column
addFilterClauses(q, data) ==
  /\ \A i \in 1..Len(q.filters) : matchFilter(getPath(data, q.filters[i].field), q.filters[i])
  /\ (q.q # None /\ q.q[1] # <<>>) =>
       SqlLike(SqlLower(JSONstringifyObject(data)),
               PERCENT \o escapeLikePattern(toLowerCase(q.q[1])) \o PERCENT)

\* mocy_sort_numeric_rank
mocy_sort_numeric_rank(data, field) == IF asNumber(getPath(data, field)).finite THEN 0 ELSE 1

\* mocy_sort_numeric_value: a number, or NULL
mocy_sort_numeric_value(data, field) ==
  LET numeric == asNumber(getPath(data, field))
  IN IF numeric.finite THEN Some(numeric.n) ELSE None

\* mocy_sort_text_value
mocy_sort_text_value(data, field) == stringifyValue(getPath(data, field))

\* the comparison of two rows by the three ORDER BY terms of one field, given
\* the terms: the rank ascending, then the numeric value (NULL equal to NULL)
\* and the text (in the BINARY collation, which orders the model's strings as
\* < does) in the given direction
CompareTerms(ra, rb, na, nb, ta, tb, sign) ==
  IF ra # rb THEN Sign(ra - rb)
  ELSE IF na # None /\ nb # None /\ na[1] # nb[1] THEN sign * Sign(na[1] - nb[1])
  ELSE IF StrLess(ta, tb) THEN 0 - sign
  ELSE IF StrLess(tb, ta) THEN sign
  ELSE 0

\* the three ORDER BY terms of one field, compared for two rows
OrderTerms(a, b, field, direction) ==
  CompareTerms(mocy_sort_numeric_rank(a, field), mocy_sort_numeric_rank(b, field),
               mocy_sort_numeric_value(a, field), mocy_sort_numeric_value(b, field),
               mocy_sort_text_value(a, field), mocy_sort_text_value(b, field),
               IF direction = "desc" THEN -1 ELSE 1)

\* buildOrderByClause: the ORDER BY clause, as a comparison of two rows of
\* the table (their positions are their rowids)
RECURSIVE OrderByFrom(_, _, _, _)
OrderByStep(c, a, b, q, index) == IF c # 0 THEN c ELSE OrderByFrom(a, b, q, index + 1)

OrderByFrom(a, b, q, index) ==
  IF index > Len(q.sort) THEN OrderTerms(a, b, K_id, "asc")
  ELSE OrderByStep(OrderTerms(a, b, q.sort[index], Direction(q.order, index)), a, b, q, index)

buildOrderByClause(q, a, b, rowidA, rowidB) ==
  IF Len(q.sort) = 0 THEN Sign(rowidA - rowidB) ELSE OrderByFrom(a, b, q, 1)

\* a LIMIT that is the limit of the query, whatever the range is
LimitOf_limitOnly(q, ranged) ==
  IF q.limit # None THEN Some(Max(0, q.limit[1])) ELSE ranged

\* Math.min of the range's length and the limit
LimitOf(q, ranged) ==
  IF q.limit # None
  THEN IF ranged # None THEN Some(Min(ranged[1], Max(0, q.limit[1])))
       ELSE Some(Max(0, q.limit[1]))
  ELSE ranged

\* the LIMIT and OFFSET of a query without page
RangeClause(q, offset) ==
  [limit |-> LimitOf(q, IF q.end # None THEN Some(Max(offset, q.end[1]) - offset) ELSE None),
   offset |-> offset, page |-> None, perPage |-> None]

\* a page clause that counts pages from 0
PageClause_zeroBased(page, perPage) ==
  [limit |-> Some(perPage), offset |-> page * perPage,
   page |-> Some(page), perPage |-> Some(perPage)]

\* the LIMIT and OFFSET of a query with a page
PageClause(page, perPage) ==
  [limit |-> Some(perPage), offset |-> (page - 1) * perPage,
   page |-> Some(page), perPage |-> Some(perPage)]

\* buildPaginationClause: LIMIT and OFFSET (limit None: no LIMIT, or LIMIT -1)
buildPaginationClause(q) ==
  IF q.page # None
  THEN PageClause(Max(1, q.page[1]), Max(1, OrElse(q.perPage, OrElse(q.limit, Some(10)))[1]))
  ELSE RangeClause(q, IF q.start # None \/ q.end # None
                      THEN Max(0, OrElse(q.start, Some(0))[1]) ELSE 0)

\* the rows of `matching` in the order of the ORDER BY clause
OrderedRows(table, matching, q) ==
  CHOOSE p \in [1..Cardinality(matching) -> matching] :
    \A i, j \in 1..Cardinality(matching) :
       i < j => buildOrderByClause(q, table[p[i]], table[p[j]], p[i], p[j]) < 0

\* SELECT data ... LIMIT ? OFFSET ?
LimitOffset(selected, pagination) ==
  Slice(selected, pagination.offset,
        IF pagination.limit # None THEN pagination.offset + pagination.limit[1]
        ELSE Len(selected))

\* the rows of the result, the total and the page
SelectRows(table, ordered, pagination) ==
  ListResult(LimitOffset([i \in 1..Len(ordered) |-> table[ordered[i]]], pagination),
             Len(ordered), pagination.page, pagination.perPage)

\* the SELECT statements of queryCollection on the rows of one resource
SelectFrom(table, q) ==
  SelectRows(table,
             OrderedRows(table, {i \in 1..Len(table) : addFilterClauses(q, table[i])}, q),
             buildPaginationClause(q))

\* SqliteStore.queryCollection
queryCollection(recs, resource, q) == SelectFrom(list(recs, resource), q)

---------------------------------------------------------------------------
(* List evaluation: the inputs, and the two evaluators run on them *)

MaxQueryRows == 2

\* the fields of a record of the collection "posts" besides its id: a views
\* value that is a number or a text, or the title "É", or none
QueryFields ==
  {<<>>, (K_title :> JStr(S_Eacute))}
  \cup {(K_views :> views) : views \in {JNum(10), JNum(-1), JStr(S_a)}}

\* the ids of the rows of a table by position: in store order and against it
QueryIds == {<<S_1, S_2, S_a>>, <<S_a, S_2, S_1>>}

\* three records of which the first and the last have no views
TieTable ==
  <<Row("posts", S_1, (K_id :> JStr(S_1))),
    Row("posts", S_2, (K_id :> JStr(S_2)) @@ (K_views :> JNum(-1))),
    Row("posts", S_10, (K_id :> JStr(S_10)))>>

QueryTables ==
  {[i \in 1..Len(t) |-> Row("posts", ids[i], (K_id :> JStr(ids[i])) @@ t[i])] :
     ids \in QueryIds, t \in UNION {[1..n -> QueryFields] : n \in 0..MaxQueryRows}}
  \cup {TieTable}

Filter(field, op, values) == [field |-> field, op |-> op, values |-> values]

ListQuery(q, sort, order, page, perPage, start, end, limit, filters) ==
  [q |-> q, sort |-> sort, order |-> order, page |-> page, perPage |-> perPage,
   start |-> start, end |-> end, limit |-> limit, filters |-> filters]

NoPage == <<None, None, None, None, None>>

\* page, perPage, start, end, limit
Windows ==
  {<<Some(1), Some(1), None, None, None>>,
   <<Some(1), Some(0), None, None, None>>,
   <<Some(3), Some(1), Some(1), Some(1), None>>,
   <<Some(2), None, None, None, Some(1)>>,
   <<None, None, Some(1), None, None>>,
   <<None, None, Some(1), Some(0), None>>,
   <<None, None, Some(-1), Some(1), Some(2)>>,
   <<None, None, None, Some(2), Some(1)>>,
   <<None, None, None, None, Some(1)>>,
   <<None, None, None, None, Some(-1)>>}

\* searches and sorts of the whole collection, pages and ranges of it sorted
\* by id descending, and a filter
Queries ==
  {ListQuery(None, sort, order, None, None, None, None, None, <<>>) :
     sort \in {<<>>, <<K_views>>, <<K_id>>},
     order \in {<<>>, <<"desc">>}}
  \cup
  {ListQuery(Some(S_eacute), <<>>, <<>>, None, None, None, None, None, <<>>)}
  \cup
  {ListQuery(None, <<K_id>>, <<"desc">>, w[1], w[2], w[3], w[4], w[5], <<>>) : w \in Windows}
  \cup
  {ListQuery(None, <<K_views>>, <<"desc">>, None, None, None, None, None,
             <<Filter(K_views, op, <<S_2>>)>>) : op \in {"gte", "ne"}}

InitQuery ==
  /\ records \in QueryTables
  /\ singular = <<>>
  /\ call = NoCall
  /\ rows = list(records, "posts")
  /\ query \in Queries
  /\ memResult = None
  /\ sqlResult = None
  /\ NotWatching

\* applyListQuery(rows, query)
ApplyListQuery ==
  /\ memResult = None
  /\ memResult' \in {Some(result) : result \in applyListQuery(rows, query)}
  /\ UNCHANGED <<records, singular, call, rows, query, sqlResult, watchVars>>

\* store.queryCollection("posts", query)
QueryCollection ==
  /\ sqlResult = None
  /\ sqlResult' = Some(queryCollection(records, "posts", query))
  /\ UNCHANGED <<records, singular, call, rows, query, memResult, watchVars>>

NextQuery == ApplyListQuery \/ QueryCollection

QuerySpec == InitQuery /\ [][NextQuery]_vars

\* C1: for every ListQuery and every set of records of one collection,
\* applyListQuery over the records in store order and queryCollection return
\* the same data in the same order, the same total, and the same page and
\* perPage (both present or both absent)
C1_EvaluatorsAgree ==
  (memResult # None /\ sqlResult # None) => memResult = sqlResult

---------------------------------------------------------------------------
(* Singular resources *)

\* INSERT INTO singular ... ON CONFLICT(resource) DO UPDATE SET data = excluded.data
SqlUpsertSingular(sing, resource, data) == (resource :> data) @@ sing

\* DELETE FROM singular WHERE resource = ?
SqlDeleteSingular(sing, resource) == [r \in DOMAIN sing \ {resource} |-> sing[r]]

SingularResult(kind, value, sing) == [kind |-> kind, value |-> value, sing |-> sing]

\* SqliteStore.replaceSingular
replaceSingular(sing, resource, input) ==
  SingularResult("value", input, SqlUpsertSingular(sing, resource, input))

\* existing ?? {}
OrEmpty(existing) == IF existing.found THEN existing.data ELSE EmptyObject

\* patchSingular that stores the patch alone
patchSingular_patchOnly(sing, resource, partial) == replaceSingular(sing, resource, partial)

\* SqliteStore.patchSingular
patchSingular(sing, resource, partial) ==
  replaceSingular(sing, resource, Spread(OrEmpty(getSingular(sing, resource)), partial))

\* SqliteStore.deleteSingular
deleteSingular(sing, resource) ==
  IF ~getSingular(sing, resource).found THEN SingularResult("null", EmptyObject, sing)
  ELSE SingularResult("value", getSingular(sing, resource).data,
                      SqlDeleteSingular(sing, resource))

SingularResources == {"profile", "settings"}

\* the objects given to replaceSingular and patchSingular
SingularBodies ==
  {EmptyObject, (K_title :> JStr(S_x)), (K_views :> JNum(10)),
   (K_title :> JStr(S_y)) @@ (K_views :> JNum(10))}

\* store.replaceSingular(resource, input)
ReplaceSingular ==
  \E resource \in SingularResources : \E input \in SingularBodies :
    LET r == replaceSingular(singular, resource, input)
    IN /\ call.op = "none"
       /\ singular' = r.sing
       /\ call' = Called("replaceSingular", resource, <<>>, input, <<>>, NoStream,
                         r.kind, r.value, 0, 0)
       /\ UNCHANGED <<records, queryVars, watchVars>>

\* store.patchSingular(resource, patch)
PatchSingular ==
  \E resource \in SingularResources : \E partial \in SingularBodies :
    LET r == patchSingular(singular, resource, partial)
    IN /\ call.op = "none"
       /\ singular' = r.sing
       /\ call' = Called("patchSingular", resource, <<>>, partial, <<>>, NoStream,
                         r.kind, r.value, 0, 0)
       /\ UNCHANGED <<records, queryVars, watchVars>>

\* store.deleteSingular(resource)
DeleteSingular ==
  \E resource \in SingularResources :
    LET r == deleteSingular(singular, resource)
    IN /\ call.op = "none"
       /\ singular' = r.sing
       /\ call' = Called("deleteSingular", resource, <<>>, EmptyObject, <<>>, NoStream,
                         r.kind, r.value, 0, 0)
       /\ UNCHANGED <<records, queryVars, watchVars>>

\* the singular calls, between imports of the source file
NextSingular ==
  \/ ImportData
  \/ ReplaceSingular
  \/ PatchSingular
  \/ DeleteSingular
  \/ Return

SingularSpec == Init /\ [][NextSingular]_vars

\* C11: replaceSingular(r, v) makes getSingular(r) return v whether or not r
\* existed; patchSingular(r, p) makes it return p's keys over the previous
\* value's (over the empty object when r was absent); deleteSingular(r)
\* returns the removed value and leaves r absent, and on an absent r returns
\* absent; none of them touches another resource or the records
C11_Singular ==
  LET previous == getSingular(call.before.sing, call.resource)
      others == \A r \in (DOMAIN singular \cup DOMAIN call.before.sing) \ {call.resource} :
                  getSingular(singular, r) = getSingular(call.before.sing, r)
      merged == [k \in (IF previous.found THEN DOMAIN previous.data ELSE {})
                        \cup DOMAIN call.input |->
                   IF k \in DOMAIN call.input THEN call.input[k] ELSE previous.data[k]]
  IN /\ call.op = "replaceSingular" =>
          /\ getSingular(singular, call.resource) = Found(call.input)
          /\ call.value = call.input
          /\ others /\ records = call.before.recs
     /\ call.op = "patchSingular" =>
          /\ getSingular(singular, call.resource) = Found(merged)
          /\ call.value = merged
          /\ others /\ records = call.before.recs
     /\ call.op = "deleteSingular" =>
          /\ ~getSingular(singular, call.resource).found
          /\ IF previous.found
             THEN call.kind = "value" /\ call.value = previous.data
             ELSE call.kind = "null" /\ singular = call.before.sing
          /\ others /\ records = call.before.recs

\* a patch kept one key of the previous value and replaced another
C11_Witness ==
  /\ call.op = "patchSingular"
  /\ getSingular(call.before.sing, call.resource)
       = Found((K_title :> JStr(S_y)) @@ (K_views :> JNum(10)))
  /\ call.input = (K_title :> JStr(S_x))

\* C12: the kind of a resource does not change between full imports: a
\* resource that hasCollection reported as a collection before a create,
\* replace, patch or delete call (POST /:resource included) is still
\* reported as one after it, also when the call deleted its last record, and
\* is no singular resource
C12_KindFixed ==
  \A resource \in Resources :
    (/\ call.op \in {"create", "post", "replace", "patch", "delete"}
     /\ hasCollection(call.before.recs, resource))
      => /\ hasCollection(records, resource)
         /\ ~hasSingular(singular, resource)

---------------------------------------------------------------------------
(* Properties of the list evaluation *)

\* the rows that pass all filters and the search of the in-memory evaluator
PassingInMemory ==
  {i \in 1..Len(rows) :
     /\ \A f \in 1..Len(query.filters) :
          matchFilter(getPath(rows[i], query.filters[f].field), query.filters[f])
     /\ (query.q # None /\ query.q[1] # <<>>) =>
          Includes(toLowerCase(JSONstringifyObject(rows[i])), toLowerCase(query.q[1]))}

\* the rows that pass the WHERE clause of the SQL evaluator
PassingInSql == {i \in 1..Len(rows) : addFilterClauses(query, rows[i])}

\* C13: in every ListResult, total is the number of records that pass all
\* filters and the q search, whatever page, perPage, start, end, limit, sort
\* and order are, and the data is never longer than it
C13_TotalBeforeSlice ==
  /\ memResult # None =>
       /\ memResult[1].total = Cardinality(PassingInMemory)
       /\ Len(memResult[1].data) <= memResult[1].total
  /\ sqlResult # None =>
       /\ sqlResult[1].total = Cardinality(PassingInSql)
       /\ Len(sqlResult[1].data) <= sqlResult[1].total

\* both evaluators returned a page that is shorter than the total
C13_Witness ==
  /\ memResult # None /\ sqlResult # None
  /\ memResult[1].page # None
  /\ Len(memResult[1].data) < memResult[1].total
  /\ Len(sqlResult[1].data) < sqlResult[1].total

\* the query without page, perPage, start, end and limit
Unsliced(q) ==
  [q EXCEPT !.page = None, !.perPage = None, !.start = None, !.end = None, !.limit = None]

\* the page of size perPage of a complete result
PageSlice(full, page, perPage) ==
  ListResult(Slice(full.data, (page - 1) * perPage, page * perPage), full.total,
             Some(page), Some(perPage))

\* with page set, both results are the page of size perPage; without, they
\* carry neither page nor perPage
PagedBy(perPage) ==
  /\ (query.page # None /\ query.page[1] >= 1) =>
       /\ memResult # None =>
            \E full \in applyListQuery(rows, Unsliced(query)) :
               memResult[1] = PageSlice(full, query.page[1], perPage)
       /\ sqlResult # None =>
            \E full \in {queryCollection(records, "posts", Unsliced(query))} :
               sqlResult[1] = PageSlice(full, query.page[1], perPage)
  /\ query.page = None =>
       /\ memResult # None => (memResult[1].page = None /\ memResult[1].perPage = None)
       /\ sqlResult # None => (sqlResult[1].page = None /\ sqlResult[1].perPage = None)

\* C14 as stated: when page is set (page >= 1) the data is the slice
\* [(page-1)*perPage, page*perPage) of the filtered and sorted records, with
\* perPage the given perPage, else limit, else 10, whatever start and end
\* are, and the result carries page and perPage; when page is not set the
\* result carries neither
C14_PageAsStated == PagedBy(OrElse(query.perPage, OrElse(query.limit, Some(10)))[1])

\* C14 amended: the same, with perPage at least 1: the given perPage, else
\* limit, else 10, raised to 1 when it is less
C14_Page == PagedBy(Max(1, OrElse(query.perPage, OrElse(query.limit, Some(10)))[1]))

\* both evaluators returned a page beyond the last record, for a query that
\* also has start and end
C14_Witness ==
  /\ memResult # None /\ sqlResult # None
  /\ query.page = Some(3) /\ query.start # None /\ query.end # None
  /\ memResult[1].data = <<>> /\ memResult[1].total = 2
  /\ sqlResult[1].data = <<>> /\ sqlResult[1].total = 2

\* the elements of data at the 0-based positions lo, ..., hi - 1
HalfOpen(data, lo, hi) ==
  [i \in 1..(Min(hi, Len(data)) - lo) |-> data[lo + i]]

\* the range and limit of a query without page, taken from a complete result
RangeSlice(full, q) ==
  LET from == OrElse(q.start, Some(0))[1]
      ranged == IF q.start = None /\ q.end = None THEN full.data
                ELSE HalfOpen(full.data, Max(0, from),
                              IF q.end # None THEN Max(from, q.end[1]) ELSE Len(full.data))
  IN ListResult(IF q.limit # None THEN HalfOpen(ranged, 0, Max(0, q.limit[1])) ELSE ranged,
                full.total, None, None)

\* C15: when page is not set, the data is the half-open slice of the filtered
\* and sorted records from max(0, start) (0 when start is unset) up to
\* max(start, end), or to the end when end is unset, when start or end is
\* set; of this slice, or of all the records when neither is set, it is the
\* first max(0, limit) records when limit is set
C15_Range ==
  query.page = None =>
    /\ memResult # None =>
         \E full \in applyListQuery(rows, Unsliced(query)) :
            memResult[1] = RangeSlice(full, query)
    /\ sqlResult # None =>
         \E full \in {queryCollection(records, "posts", Unsliced(query))} :
            sqlResult[1] = RangeSlice(full, query)

\* both evaluators returned one of two records for a negative start, an end
\* and a limit that is greater than the range
C15_Witness ==
  /\ memResult # None /\ sqlResult # None
  /\ query.page = None /\ query.start = Some(-1) /\ query.end = Some(1)
  /\ query.limit = Some(2)
  /\ Len(memResult[1].data) = 1 /\ memResult[1].total = 2
  /\ Len(sqlResult[1].data) = 1 /\ sqlResult[1].total = 2

---------------------------------------------------------------------------
(* Filters: the two evaluators run on queries that only filter *)

\* the ids of the rows of a table, by position
RowIds == <<S_1, S_2, S_a, S_b>>

\* the values of the field views: absent, numbers, a text, a numeric-looking
\* text, an array and the empty array
FilterValues ==
  {Undefined, JNum(10), JNum(-1), JStr(S_a), JStr(S_10),
   JArr(<<JStr(S_a), JNum(10)>>), JArr(<<>>)}

FilterRecord(id, views) ==
  IF views = Undefined THEN (K_id :> JStr(id))
  ELSE (K_id :> JStr(id)) @@ (K_views :> views)

\* the rows of test/query.test.ts: views 12, 5 and 40 on the ids 1, 2 and 3
ExampleTable ==
  <<Row("posts", S_1, FilterRecord(S_1, JNum(12))),
    Row("posts", S_2, FilterRecord(S_2, JNum(5))),
    Row("posts", S_3, FilterRecord(S_3, JNum(40)))>>

FilterTables ==
  {[i \in 1..Len(t) |-> Row("posts", RowIds[i], FilterRecord(RowIds[i], t[i]))] :
     t \in UNION {[1..n -> FilterValues] : n \in 0..MaxQueryRows}}
  \cup {ExampleTable}

\* one filter on views of every operator with one or two values, the filters
\* with the empty text, and the two filters views_gte=10 and views_lt=20
FilterQueries ==
  {ListQuery(None, <<>>, <<>>, None, None, None, None, None, filters) :
     filters \in {<<Filter(K_views, op, values)>> :
                    op \in {"eq", "ne", "lt", "lte", "gt", "gte"},
                    values \in {<<S_10>>, <<S_10, S_a>>}}
                 \cup {<<Filter(K_views, op, << <<>> >>)>> : op \in {"eq", "ne", "lt"}}
                 \cup {<<Filter(K_views, "gte", <<S_10>>), Filter(K_views, "lt", <<S_20>>)>>}}

InitFilter ==
  /\ records \in FilterTables
  /\ singular = <<>>
  /\ call = NoCall
  /\ rows = list(records, "posts")
  /\ query \in FilterQueries
  /\ memResult = None
  /\ sqlResult = None
  /\ NotWatching

FilterSpec == InitFilter /\ [][NextQuery]_vars

\* the row is in the data of the result
InData(result, row) == \E k \in 1..Len(result.data) : result.data[k] = row

\* what a filter asks of a value that is no array
Holds(filter, v) ==
  CASE filter.op = "eq" ->
         \E i \in 1..Len(filter.values) : stringifyValue(v) = filter.values[i]
    [] filter.op = "ne" ->
         \A i \in 1..Len(filter.values) : stringifyValue(v) # filter.values[i]
    [] filter.op = "lt" ->
         \E i \in 1..Len(filter.values) : compareComparable(v, filter.values[i]) < 0
    [] filter.op = "lte" ->
         \E i \in 1..Len(filter.values) : compareComparable(v, filter.values[i]) <= 0
    [] filter.op = "gt" ->
         \E i \in 1..Len(filter.values) : compareComparable(v, filter.values[i]) > 0
    [] filter.op = "gte" ->
         \E i \in 1..Len(filter.values) : compareComparable(v, filter.values[i]) >= 0

\* the query with the operator eq in its one filter
WithEq(q) == [q EXCEPT !.filters = <<[q.filters[1] EXCEPT !.op = "eq"]>>]

\* C16: for a field value v that is no array (absent is the empty text) and
\* one filter with the values V, the record is returned by eq iff the text
\* of v is one of V, by ne iff it differs from every one of V, by lt, lte,
\* gt and gte iff the comparison holds against at least one of V; with one
\* value, ne returns the record iff eq does not
C16_FilterOperators ==
  \A i \in 1..Len(rows) :
    (Len(query.filters) = 1 /\ getPath(rows[i], query.filters[1].field).t # "array") =>
      /\ memResult # None =>
           /\ InData(memResult[1], rows[i])
                <=> Holds(query.filters[1], getPath(rows[i], query.filters[1].field))
           /\ (query.filters[1].op = "ne" /\ Len(query.filters[1].values) = 1) =>
                \A eq \in applyListQuery(rows, WithEq(query)) :
                   InData(memResult[1], rows[i]) <=> ~InData(eq, rows[i])
      /\ sqlResult # None =>
           /\ InData(sqlResult[1], rows[i])
                <=> Holds(query.filters[1], getPath(rows[i], query.filters[1].field))
           /\ (query.filters[1].op = "ne" /\ Len(query.filters[1].values) = 1) =>
                (InData(sqlResult[1], rows[i])
                   <=> ~InData(queryCollection(records, "posts", WithEq(query)), rows[i]))

\* ne with two values dropped the record whose views is 10 and kept the one
\* without views, in both evaluators
C16_Witness ==
  /\ memResult # None /\ sqlResult # None
  /\ query.filters = <<Filter(K_views, "ne", <<S_10, S_a>>)>>
  /\ Len(rows) = 2
  /\ getPath(rows[1], K_views) = JNum(10) /\ getPath(rows[2], K_views) = Undefined
  /\ memResult[1].data = <<rows[2]>> /\ sqlResult[1].data = <<rows[2]>>

\* what a filter asks of a value: of one element when it is an array
Passes(filter, v) ==
  IF v.t = "array" THEN \E e \in 1..Len(v.a) : Holds(filter, v.a[e]) ELSE Holds(filter, v)

\* C17: a record is returned iff it passes every filter of the query, two
\* filters on one field included (views_gte=10 and views_lt=20 over the views
\* 12, 5 and 40 return the id 1 only); a filter of any operator on an array
\* passes iff one element satisfies it, and never passes on the empty array
C17_Conjunction ==
  /\ \A i \in 1..Len(rows) :
       /\ memResult # None =>
            (InData(memResult[1], rows[i])
               <=> \A f \in 1..Len(query.filters) :
                      Passes(query.filters[f], getPath(rows[i], query.filters[f].field)))
       /\ sqlResult # None =>
            (InData(sqlResult[1], rows[i])
               <=> \A f \in 1..Len(query.filters) :
                      Passes(query.filters[f], getPath(rows[i], query.filters[f].field)))
       /\ (query.filters # <<>> /\ getPath(rows[i], query.filters[1].field) = JArr(<<>>)) =>
            /\ memResult # None => ~InData(memResult[1], rows[i])
            /\ sqlResult # None => ~InData(sqlResult[1], rows[i])
  /\ (records = ExampleTable /\ Len(query.filters) = 2) =>
       /\ memResult # None => memResult[1].data = <<rows[1]>>
       /\ sqlResult # None => sqlResult[1].data = <<rows[1]>>

\* ne kept the record whose views is an array with an element other than 10
\* and dropped the one whose views is the empty array, in both evaluators
C17_Witness ==
  /\ memResult # None /\ sqlResult # None
  /\ query.filters = <<Filter(K_views, "ne", <<S_10>>)>>
  /\ Len(rows) = 2
  /\ getPath(rows[1], K_views) = JArr(<<JStr(S_a), JNum(10)>>)
  /\ getPath(rows[2], K_views) = JArr(<<>>)
  /\ memResult[1].data = <<rows[1]>> /\ sqlResult[1].data = <<rows[1]>>

---------------------------------------------------------------------------
(* Properties of the sort *)

\* the sign of compareRows on the rows i and j, for the sort of the query
Compared(i, j) == Sign(compareRows(rows[i], rows[j], query.sort, query.order))

\* C18: with sort set, the comparison of the in-memory sort is antisymmetric
\* and transitive on the records, whatever mix of numbers, texts and absent
\* values their fields hold, and the result of applyListQuery is the same
\* for every order in which the records are supplied
C18_TotalOrder ==
  (memResult # None /\ Len(query.sort) > 0) =>
    /\ \A i, j \in 1..Len(rows) : Compared(i, j) = 0 - Compared(j, i)
    /\ \A i, j, k \in 1..Len(rows) :
         (Compared(i, j) < 0 /\ Compared(j, k) < 0) => Compared(i, k) < 0
    /\ \A p \in Orderings(Len(rows)) :
         applyListQuery(Reordered(rows, p), query) = {memResult[1]}

\* tables whose rows have a number in views and a text in title, and the
\* rows of test/query.test.ts
SortTables ==
  {[i \in 1..Len(t) |->
      Row("posts", RowIds[i],
          (K_id :> JStr(RowIds[i])) @@ (K_views :> JNum(t[i][1])) @@ (K_title :> JStr(t[i][2])))] :
     t \in UNION {[1..n -> {5, 12} \X {S_a, S_b}] : n \in 0..MaxQueryRows}}
  \cup {ExampleTable}

\* sorts by one and two fields, with no, one and two directions
SortQueries ==
  {ListQuery(None, sort, order, None, None, None, None, None, <<>>) :
     sort \in {<<K_views>>, <<K_views, K_title>>, <<K_title, K_views>>},
     order \in {<<>>, <<"desc">>, <<"desc", "asc">>, <<"asc", "desc">>}}

InitSort ==
  /\ records \in SortTables
  /\ singular = <<>>
  /\ call = NoCall
  /\ rows = list(records, "posts")
  /\ query \in SortQueries
  /\ memResult = None
  /\ sqlResult = None
  /\ NotWatching

SortSpec == InitSort /\ [][NextQuery]_vars

\* a is less than b in the field: by number in views, by text elsewhere
FieldLess(a, b, field) ==
  IF field = K_views THEN getPath(a, field).n < getPath(b, field).n
  ELSE StrLess(getPath(a, field).s, getPath(b, field).s)

\* every two records of the data that differ first in the i-th sort field
\* are in the direction order[i], else order[0], else asc, of that field
InDirection(data) ==
  \A k, l \in 1..Len(data) : \A i \in 1..Len(query.sort) :
    (/\ k < l
     /\ \A h \in 1..(i - 1) : getPath(data[k], query.sort[h]) = getPath(data[l], query.sort[h])
     /\ getPath(data[k], query.sort[i]) # getPath(data[l], query.sort[i]))
      => IF (IF i <= Len(query.order) THEN query.order[i]
             ELSE IF Len(query.order) >= 1 THEN query.order[1] ELSE "asc") = "desc"
         THEN FieldLess(data[l], data[k], query.sort[i])
         ELSE FieldLess(data[k], data[l], query.sort[i])

\* C19: the direction of the i-th sort field is order[i] when present, else
\* order[0] when present, else asc; the views 12, 5 and 40 on the ids 1, 2
\* and 3 sorted by views desc come in the order 3, 1, 2
C19_Direction ==
  /\ memResult # None => InDirection(memResult[1].data)
  /\ sqlResult # None => InDirection(sqlResult[1].data)
  /\ (records = ExampleTable /\ query.sort = <<K_views>> /\ query.order = <<"desc">>) =>
       /\ memResult # None => memResult[1].data = <<rows[3], rows[1], rows[2]>>
       /\ sqlResult # None => sqlResult[1].data = <<rows[3], rows[1], rows[2]>>

\* two records with the same views came by title descending, for the sort
\* views,title and the one direction desc, in both evaluators
C19_Witness ==
  /\ memResult # None /\ sqlResult # None
  /\ query.sort = <<K_views, K_title>> /\ query.order = <<"desc">>
  /\ Len(rows) = 2
  /\ getPath(rows[1], K_views) = getPath(rows[2], K_views)
  /\ getPath(rows[1], K_title) = JStr(S_a) /\ getPath(rows[2], K_title) = JStr(S_b)
  /\ memResult[1].data = <<rows[2], rows[1]>> /\ sqlResult[1].data = <<rows[2], rows[1]>>

---------------------------------------------------------------------------
(* parseListQuery: the raw query is the sequence of its entries, in the
   order of Object.entries; a value is undefined, a text or an array of
   texts *)

\* "_sort"
P_sort == <<95, 115, 111, 114, 116>>

\* "_order"
P_order == <<95, 111, 114, 100, 101, 114>>

\* "_page"
P_page == <<95, 112, 97, 103, 101>>

\* "_per_page"
P_per_page == <<95, 112, 101, 114, 95, 112, 97, 103, 101>>

\* "_limit"
P_limit == <<95, 108, 105, 109, 105, 116>>

\* "_start"
P_start == <<95, 115, 116, 97, 114, 116>>

\* "_end"
P_end == <<95, 101, 110, 100>>

\* "q"
P_q == <<113>>

\* "views_ne"
K_views_ne == <<118, 105, 101, 119, 115, 95, 110, 101>>

\* "views_lt"
K_views_lt == <<118, 105, 101, 119, 115, 95, 108, 116>>

\* "views_lte"
K_views_lte == <<118, 105, 101, 119, 115, 95, 108, 116, 101>>

\* "views_gt"
K_views_gt == <<118, 105, 101, 119, 115, 95, 103, 116>>

\* "views_gte"
K_views_gte == <<118, 105, 101, 119, 115, 95, 103, 116, 101>>

\* "desc"
S_desc == <<100, 101, 115, 99>>

\* "a,DESC"
S_a_DESC == <<97, 44, 68, 69, 83, 67>>

RESERVED_PARAMS ==
  {P_sort, P_order, P_page, P_per_page, P_limit, P_start, P_end, P_q}

OP_SUFFIXES ==
  <<[suffix |-> <<95, 110, 101>>, op |-> "ne"],
    [suffix |-> <<95, 108, 116>>, op |-> "lt"],
    [suffix |-> <<95, 108, 116, 101>>, op |-> "lte"],
    [suffix |-> <<95, 103, 116>>, op |-> "gt"],
    [suffix |-> <<95, 103, 116, 101>>, op |-> "gte"]>>

\* key.endsWith(suffix)
endsWith(key, suffix) ==
  /\ Len(key) >= Len(suffix)
  /\ SubSeq(key, Len(key) - Len(suffix) + 1, Len(key)) = suffix

\* Array.isArray(rawValue) ? rawValue : [rawValue]
ValuesOf(rawValue) ==
  IF rawValue.t = "array" THEN [i \in 1..Len(rawValue.a) |-> rawValue.a[i].s]
  ELSE <<rawValue.s>>

\* the filter of a key, given the suffixes it ends with: the first of them
\* decides
FilterWith(key, values, matching) ==
  IF matching = {} THEN Filter(key, "eq", values)
  ELSE Filter(SubSeq(key, 1, Len(key)
                - Len(OP_SUFFIXES[CHOOSE c \in matching : \A d \in matching : c <= d].suffix)),
              OP_SUFFIXES[CHOOSE c \in matching : \A d \in matching : c <= d].op, values)

\* a filter whose field is the whole key
FilterOf_wholeKey(key, rawValue) ==
  LET f == FilterWith(key, ValuesOf(rawValue),
                      {c \in 1..Len(OP_SUFFIXES) : endsWith(key, OP_SUFFIXES[c].suffix)})
  IN Filter(key, f.op, f.values)

\* the body of the loop of parseListQuery for a key that is kept
FilterOf(key, rawValue) ==
  FilterWith(key, ValuesOf(rawValue),
             {c \in 1..Len(OP_SUFFIXES) : endsWith(key, OP_SUFFIXES[c].suffix)})

\* the entries that the loop of parseListQuery does not skip
KeptEntries(raw) ==
  SelectSeq(raw, LAMBDA e : ~(e.value = Undefined \/ e.key \in RESERVED_PARAMS))

\* the filters of parseListQuery
FiltersOf(kept) == [i \in 1..Len(kept) |-> FilterOf(kept[i].key, kept[i].value)]

\* raw[key]
RawValue(raw, key) ==
  IF \E i \in 1..Len(raw) : raw[i].key = key
  THEN raw[CHOOSE i \in 1..Len(raw) : raw[i].key = key].value
  ELSE Undefined

\* first
first(value) ==
  IF value.t = "array" THEN (IF Len(value.a) > 0 THEN value.a[1] ELSE Undefined)
  ELSE value

\* input.split(',')
RECURSIVE Split(_, _)
Split(input, current) ==
  IF input = <<>> THEN <<current>>
  ELSE IF Head(input) = 44 THEN <<current>> \o Split(Tail(input), <<>>)
  ELSE Split(Tail(input), Append(current, Head(input)))

\* the entries of a split input, trimmed, without the empty ones
TrimmedEntries(parts) ==
  SelectSeq([i \in 1..Len(parts) |-> Trim(parts[i])], LAMBDA entry : Len(entry) > 0)

\* csv
csv(value) ==
  IF first(value).t # "string" \/ first(value).s = <<>> THEN <<>>
  ELSE TrimmedEntries(Split(first(value).s, <<>>))

\* csv(raw._order).map(value => value.toLowerCase() === 'desc' ? 'desc' : 'asc')
OrderOf(values) ==
  [i \in 1..Len(values) |-> IF toLowerCase(values[i]) = S_desc THEN "desc" ELSE "asc"]

\* the digits a text begins with
RECURSIVE DigitPrefix(_)
DigitPrefix(s) ==
  IF s # <<>> /\ IsDigit(Head(s)) THEN <<Head(s)>> \o DigitPrefix(Tail(s)) ELSE <<>>

\* Number.parseInt(value, 10) of a text without leading white space
ParseSigned(s) ==
  IF s # <<>> /\ Head(s) = 45 THEN Negated(DigitsToNumber(DigitPrefix(Tail(s))))
  ELSE IF s # <<>> /\ Head(s) = 43 THEN DigitsToNumber(DigitPrefix(Tail(s)))
  ELSE DigitsToNumber(DigitPrefix(s))

\* Number.isFinite(parsed) ? parsed : undefined
FiniteOrNone(parsed) == IF parsed.finite THEN Some(parsed.n) ELSE None

\* a parseIntMaybe that gives 0 for a text that is no number
parseIntMaybe_zero(value) ==
  IF value.t # "string" \/ value.s = <<>> THEN None
  ELSE Some(ParseSigned(TrimLeft(value.s)).n)

\* parseIntMaybe
parseIntMaybe(value) ==
  IF value.t # "string" \/ value.s = <<>> THEN None
  ELSE FiniteOrNone(ParseSigned(TrimLeft(value.s)))

\* parseListQuery
parseListQuery(raw) ==
  ListQuery(IF first(RawValue(raw, P_q)).t = "string"
            THEN Some(first(RawValue(raw, P_q)).s) ELSE None,
            csv(RawValue(raw, P_sort)),
            OrderOf(csv(RawValue(raw, P_order))),
            parseIntMaybe(first(RawValue(raw, P_page))),
            parseIntMaybe(first(RawValue(raw, P_per_page))),
            parseIntMaybe(first(RawValue(raw, P_start))),
            parseIntMaybe(first(RawValue(raw, P_end))),
            parseIntMaybe(first(RawValue(raw, P_limit))),
            FiltersOf(KeptEntries(raw)))

MaxParams == 2

\* the keys of a raw query: a field with and without every suffix, a bare
\* suffix, and the reserved keys
RawKeys ==
  {K_views, K_views_ne, K_views_lt, K_views_lte, K_views_gt, K_views_gte,
   OP_SUFFIXES[1].suffix} \cup RESERVED_PARAMS

\* the values of a raw query: undefined, "10", "a,DESC" and ["a", "10"]
RawValues ==
  {Undefined, JStr(S_10), JStr(S_a_DESC), JArr(<<JStr(S_a), JStr(S_10)>>)}

\* "-2x"
S_minus2x == <<45, 50, 120>>

\* the keys that parseIntMaybe reads
IntegerParams == {P_page, P_per_page, P_start, P_end, P_limit}

\* the entries of a raw query: a filter key with a text or two, q, _sort or
\* _order with a list or two texts, an integer key with any of the values,
\* the empty text or "-2x"; and every key with undefined
RawEntries ==
  [key : RawKeys, value : {Undefined, JArr(<<JStr(S_a), JStr(S_10)>>)}]
  \cup [key : RawKeys \ RESERVED_PARAMS, value : {JStr(S_10)}]
  \cup [key : RESERVED_PARAMS \ IntegerParams, value : {JStr(S_a_DESC)}]
  \cup [key : IntegerParams, value : RawValues \cup {JStr(<<>>), JStr(S_minus2x)}]

RawQueries ==
  {raw \in UNION {[1..n -> RawEntries] : n \in 0..MaxParams} :
     \A i, j \in 1..Len(raw) : i # j => raw[i].key # raw[j].key}

\* parseListQuery(req.query) of GET /:resource
ParseListQuery ==
  /\ call.op = "none"
  /\ \E raw \in RawQueries :
    /\ query' = parseListQuery(raw)
    /\ call' = Called("parseListQuery", "posts", <<>>, raw, <<>>, NoStream, "value",
                      EmptyObject, 0, 0)
    /\ UNCHANGED <<records, singular, rows, memResult, sqlResult, watchVars>>

\* one request
NextParse == ParseListQuery

ParseSpec == Init /\ [][NextParse]_vars

\* C20: parseListQuery gives one filter for each key that is not reserved
\* and has a defined value, in the order of the keys: a key that ends in _ne,
\* _lt, _lte, _gt or _gte gets that operator and the key without the suffix
\* as the field, another key gets eq and the whole key; the values are the
\* occurrences of the key in order; the keys q, _sort, _order, _page,
\* _per_page, _start, _end and _limit give no filter
C20_Filters ==
  call.op = "parseListQuery" =>
    LET kept == SelectSeq(call.input, LAMBDA e :
                  /\ e.value # Undefined
                  /\ e.key \notin {P_q, P_sort, P_order, P_page, P_per_page,
                                   P_start, P_end, P_limit})
        suffixed(key) == \E x \in {"ne", "lt", "lte", "gt", "gte"} :
                           \E field \in UNION {{SubSeq(key, 1, n)} : n \in 0..Len(key)} :
                              key = field \o <<95>> \o
                                (CASE x = "ne" -> <<110, 101>> [] x = "lt" -> <<108, 116>>
                                   [] x = "lte" -> <<108, 116, 101>> [] x = "gt" -> <<103, 116>>
                                   [] x = "gte" -> <<103, 116, 101>>)
    IN /\ Len(query.filters) = Len(kept)
       /\ \A i \in 1..Len(kept) :
            /\ \A c \in 1..Len(OP_SUFFIXES) :
                 endsWith(kept[i].key, OP_SUFFIXES[c].suffix) =>
                   /\ query.filters[i].op = OP_SUFFIXES[c].op
                   /\ query.filters[i].field \o OP_SUFFIXES[c].suffix = kept[i].key
            /\ ~suffixed(kept[i].key) =>
                 (query.filters[i].op = "eq" /\ query.filters[i].field = kept[i].key)
            /\ query.filters[i].values
                 = IF kept[i].value.t = "array"
                   THEN [k \in 1..Len(kept[i].value.a) |-> kept[i].value.a[k].s]
                   ELSE <<kept[i].value.s>>

\* views_lte with two occurrences and _limit=10 gave the one filter lte on
\* views with both values, and the limit 10
C20_Witness ==
  /\ call.op = "parseListQuery"
  /\ call.input = <<[key |-> K_views_lte, value |-> JArr(<<JStr(S_a), JStr(S_10)>>)],
                    [key |-> P_limit, value |-> JStr(S_10)]>>
  /\ query.filters = <<Filter(K_views, "lte", <<S_a, S_10>>)>>
  /\ query.limit = Some(10)

\* the raw query without the entry of the key
WithoutKey(raw, key) == SelectSeq(raw, LAMBDA e : e.key # key)

\* the text that parseIntMaybe is given for the key: the first occurrence
FirstText(raw, key) ==
  IF \A i \in 1..Len(raw) : raw[i].key # key THEN None
  ELSE LET v == raw[CHOOSE i \in 1..Len(raw) : raw[i].key = key].value
       IN IF v.t = "string" THEN Some(v.s)
          ELSE IF v.t = "array" /\ Len(v.a) > 0 THEN Some(v.a[1].s)
          ELSE None

\* the text begins with a digit, or with "-" and a digit
BeginsWithNumber(text) ==
  /\ text # <<>>
  /\ \/ text[1] \in 48..57
     \/ (Len(text) >= 2 /\ text[1] = 45 /\ text[2] \in 48..57)

---------------------------------------------------------------------------
(* Export *)

Exported(kind, items, obj) == [kind |-> kind, items |-> items, obj |-> obj]

\* a snapshot without the singular resources
snapshot_noSingular(recs, sing) ==
  [r \in {recs[i].resource : i \in 1..Len(recs)} |->
     Exported("array", list(recs, r), EmptyObject)]

\* SqliteStore.snapshot: the arrays of the records ORDER BY resource, rowid,
\* then the objects of the singular resources (JSON.parse gives back the
\* value that JSON.stringify was given at the insert)
snapshot(recs, sing) ==
  [r \in {recs[i].resource : i \in 1..Len(recs)} \cup DOMAIN sing |->
     IF r \in DOMAIN sing THEN Exported("object", <<>>, sing[r])
     ELSE Exported("array", list(recs, r), EmptyObject)]

\* the object without its id
WithoutId(obj) == [k \in DOMAIN obj \ {K_id} |-> obj[k]]

\* the exported object is the entry, given an id when the entry had none
SameButMissingId(entry, exported) ==
  /\ entry.isObject
  /\ IF HasKey(entry.obj, K_id) THEN exported = entry.obj
     ELSE /\ HasKey(exported, K_id) /\ exported[K_id].t = "string"
          /\ WithoutId(exported) = entry.obj

\* C22 as stated: after importData(doc) succeeded, snapshot() has every
\* collection of doc as an array of the same entries in the same order and
\* every singular resource of doc as the same object; only the entries
\* that had no id differ, by their generated id
C22_RoundTripAsStated ==
  (call.op = "importData" /\ call.kind = "ok") =>
    \E exported \in {snapshot(records, singular)} :
      \A i \in 1..Len(call.doc) :
        /\ call.doc[i].kind = "array" =>
             /\ call.doc[i].resource \in DOMAIN exported
             /\ exported[call.doc[i].resource].kind = "array"
             /\ Len(exported[call.doc[i].resource].items) = Len(call.doc[i].items)
             /\ \A j \in 1..Len(call.doc[i].items) :
                  SameButMissingId(call.doc[i].items[j],
                                   exported[call.doc[i].resource].items[j])
        /\ call.doc[i].kind = "object" =>
             /\ call.doc[i].resource \in DOMAIN exported
             /\ exported[call.doc[i].resource] = Exported("object", <<>>, call.doc[i].obj)

\* the exported object is the entry as import normalizes it
SameNormalized(entry, position, exported) ==
  IF ~entry.isObject
  THEN exported = (K_id :> JStr(NumberToString(position))) @@ (K_value :> entry.val)
  ELSE IF ~HasKey(entry.obj, K_id)
  THEN /\ HasKey(exported, K_id) /\ exported[K_id].t = "string"
       /\ WithoutId(exported) = entry.obj
  ELSE /\ HasKey(exported, K_id)
       /\ exported[K_id] = JStr(stringifyValue(entry.obj[K_id]))
       /\ WithoutId(exported) = WithoutId(entry.obj)

\* C22 amended: after importData(doc) succeeded, snapshot() is doc up to the
\* normalization of import: a collection with entries comes back as an array
\* of its entries in the same order, an entry without id with a generated
\* id, an entry whose id is no text with the text of its id, an entry that
\* is no object at position n as {id: "n", value: entry}; a singular
\* resource comes back as the same object; an empty array and a value that
\* is neither an array nor an object do not come back; nothing else does
C22_RoundTrip ==
  (call.op = "importData" /\ call.kind = "ok") =>
    \E exported \in {snapshot(records, singular)} :
      /\ DOMAIN exported
           = {call.doc[i].resource : i \in {k \in 1..Len(call.doc) :
                \/ call.doc[k].kind = "object"
                \/ (call.doc[k].kind = "array" /\ call.doc[k].items # <<>>)}}
      /\ \A i \in 1..Len(call.doc) :
           /\ (call.doc[i].kind = "array" /\ call.doc[i].items # <<>>) =>
                /\ exported[call.doc[i].resource].kind = "array"
                /\ Len(exported[call.doc[i].resource].items) = Len(call.doc[i].items)
                /\ \A j \in 1..Len(call.doc[i].items) :
                     SameNormalized(call.doc[i].items[j], j,
                                    exported[call.doc[i].resource].items[j])
           /\ call.doc[i].kind = "object" =>
                exported[call.doc[i].resource] = Exported("object", <<>>, call.doc[i].obj)

\* a document with an entry without id and a singular resource was imported
C22_Witness ==
  /\ call.op = "importData" /\ call.kind = "ok"
  /\ \E i, k \in 1..Len(call.doc) :
       /\ call.doc[i].kind = "object"
       /\ call.doc[k].kind = "array" /\ Len(call.doc[k].items) = 1
       /\ ~HasKey(call.doc[k].items[1].obj, K_id)
       /\ hasCollection(records, call.doc[k].resource)
       /\ hasSingular(singular, call.doc[i].resource)

---------------------------------------------------------------------------
(* Properties of the sort order *)

\* the value of the field parses as a finite number
IsNumeric(row, field) == asNumber(getPath(row, field)).finite

\* a comes before b in the three tiers of the field: a number before what is
\* none, numbers by value and the others by text in the direction
InTiers(a, b, field, direction) ==
  IF IsNumeric(a, field) # IsNumeric(b, field) THEN IsNumeric(a, field)
  ELSE IF IsNumeric(a, field)
  THEN IF direction = "desc"
       THEN asNumber(getPath(a, field)).n >= asNumber(getPath(b, field)).n
       ELSE asNumber(getPath(a, field)).n <= asNumber(getPath(b, field)).n
  ELSE IF direction = "desc"
       THEN ~StrLess(stringifyValue(getPath(a, field)), stringifyValue(getPath(b, field)))
       ELSE ~StrLess(stringifyValue(getPath(b, field)), stringifyValue(getPath(a, field)))

\* every two records of the data are in the tiers of the first sort field
Tiered(data) ==
  \A k, l \in 1..Len(data) :
    k < l => InTiers(data[k], data[l], query.sort[1],
                     IF Len(query.order) >= 1 THEN query.order[1] ELSE "asc")

\* C24: in a sorted result the records whose value of the sort field parses
\* as a finite number come before the others, under asc and under desc; the
\* direction orders the numbers by value and the others by text
C24_NumericFirst ==
  Len(query.sort) >= 1 =>
    /\ memResult # None => Tiered(memResult[1].data)
    /\ sqlResult # None => Tiered(sqlResult[1].data)

\* every two records of the data that are equal in every sort field come
\* by id ascending: numerically when both ids are numbers
TiesById(data) ==
  \A k, l \in 1..Len(data) :
    (/\ k < l
     /\ \A i \in 1..Len(query.sort) :
          getPath(data[k], query.sort[i]) = getPath(data[l], query.sort[i]))
      => InTiers(data[k], data[l], K_id, "asc")

\* C25: two records that are equal on every sort key come with the smaller
\* id first, under asc and under desc, and ids that are numbers are compared
\* as numbers: "2" before "10"
C25_IdTiebreak ==
  Len(query.sort) >= 1 =>
    /\ memResult # None => TiesById(memResult[1].data)
    /\ sqlResult # None => TiesById(sqlResult[1].data)

---------------------------------------------------------------------------
(* Properties of the comparison and of the import *)

\* the text is a number: not blank, and an optionally signed run of digits
TextIsNumber(text) == Trim(text) # <<>> /\ StringToNumber(text).finite

\* the range comparison of the claim: of numbers when the stored value and
\* the filter value both are numbers, else of the text of the stored value
\* with the filter value
RangeHolds(op, v, candidate) ==
  IF asNumber(v).finite /\ TextIsNumber(candidate)
  THEN CASE op = "lt" -> asNumber(v).n < StringToNumber(candidate).n
         [] op = "lte" -> asNumber(v).n <= StringToNumber(candidate).n
         [] op = "gt" -> asNumber(v).n > StringToNumber(candidate).n
         [] op = "gte" -> asNumber(v).n >= StringToNumber(candidate).n
  ELSE CASE op = "lt" -> StrLess(stringifyValue(v), candidate)
         [] op = "lte" -> ~StrLess(candidate, stringifyValue(v))
         [] op = "gt" -> StrLess(candidate, stringifyValue(v))
         [] op = "gte" -> ~StrLess(stringifyValue(v), candidate)

\* C26: a filter lt, lte, gt or gte compares a stored value that is no array
\* with a filter value as numbers exactly when both are finite numbers, and
\* else the text of the stored value with the filter value as texts
C26_RangeComparison ==
  \A i \in 1..Len(rows) :
    (/\ Len(query.filters) = 1
     /\ query.filters[1].op \in {"lt", "lte", "gt", "gte"}
     /\ getPath(rows[i], query.filters[1].field).t # "array") =>
      /\ memResult # None =>
           (InData(memResult[1], rows[i])
              <=> \E c \in 1..Len(query.filters[1].values) :
                     RangeHolds(query.filters[1].op,
                                getPath(rows[i], query.filters[1].field),
                                query.filters[1].values[c]))
      /\ sqlResult # None =>
           (InData(sqlResult[1], rows[i])
              <=> \E c \in 1..Len(query.filters[1].values) :
                     RangeHolds(query.filters[1].op,
                                getPath(rows[i], query.filters[1].field),
                                query.filters[1].values[c]))

\* the rows of the resource, in the order of their rowids
RowsOf(recs, resource) == SelectSeq(recs, LAMBDA row : row.resource = resource)

\* the row is the entry at the position as import stores it
StoredAs(row, entry, position, others) ==
  /\ HasKey(row.data, K_id) /\ row.data[K_id] = JStr(row.id)
  /\ IF ~entry.isObject
     THEN /\ row.id = NumberToString(position)
          /\ row.data = (K_id :> JStr(row.id)) @@ (K_value :> entry.val)
     ELSE /\ WithoutId(row.data) = WithoutId(entry.obj)
          /\ IF ~HasKey(entry.obj, K_id) THEN row.id \notin others
             ELSE CASE entry.obj[K_id].t = "number" ->
                         row.id = NumberToString(entry.obj[K_id].n)
                    [] entry.obj[K_id].t = "string" -> row.id = entry.obj[K_id].s
                    [] entry.obj[K_id].t = "boolean" ->
                         row.id = (IF entry.obj[K_id].n = 1 THEN S_true ELSE S_false)
                    [] OTHER -> TRUE

\* C27: after an import that succeeded, every entry of a collection is
\* stored at its position: an object without id with a generated id that no
\* other entry of the collection has, an object with a number, string or
\* boolean id under the text of that id, an entry that is no object at
\* position n as {id: "n", value: entry}; the ids of a collection are
\* pairwise distinct
C27_ImportNormalizes ==
  (call.op = "importData" /\ call.kind = "ok") =>
    \A i \in 1..Len(call.doc) :
      call.doc[i].kind = "array" =>
        \E stored \in {RowsOf(records, call.doc[i].resource)} :
          /\ Len(stored) = Len(call.doc[i].items)
          /\ \A j \in 1..Len(stored) :
               StoredAs(stored[j], call.doc[i].items[j], j,
                        {stored[k].id : k \in 1..Len(stored) \ {j}})
          /\ \A j, k \in 1..Len(stored) : j # k => stored[j].id # stored[k].id

\* two entries without id were imported, and an entry with a number id
C27_Witness ==
  /\ call.op = "importData" /\ call.kind = "ok"
  /\ \E i \in 1..Len(call.doc) :
       /\ call.doc[i].kind = "array" /\ Len(call.doc[i].items) = 2
       /\ Len(RowsOf(records, call.doc[i].resource)) = 2
       /\ \/ \A j \in 1..2 : ~HasKey(call.doc[i].items[j].obj, K_id)
          \/ (HasKey(call.doc[i].items[1].obj, K_id)
                /\ call.doc[i].items[1].obj[K_id] = JNum(1))

---------------------------------------------------------------------------
(* Reimport when the source file changes.  The HTTP server hands chokidar's *)
(* change events to watchFile, which debounces them with a timeout; the MCP *)
(* server starts a reimport on every change event.  importFromJsonFile      *)
(* stops at `await readFile`, so other callbacks run between its start, the *)
(* read of the file and its continuation (JSON.parse, importData).          *)

DEBOUNCE_MS == 150

\* chokidar looks at the file every pollInterval ms: the time advances in
\* these steps
POLL_MS == 50

\* the time stops at MaxTicks steps
MaxTicks == 6

\* the change events of one run of the process
MaxChanges == 2

Json(doc) == [kind |-> "json", doc |-> doc]

InvalidJson == [kind |-> "invalid", doc |-> <<>>]

Unreadable == [kind |-> "unreadable", doc |-> <<>>]

NoContents == [kind |-> "none", doc |-> <<>>]

PostsTitled(title) == <<ArrayOf("posts", <<ObjectEntry(Obj(JStr(S_1), JStr(title)))>>)>>

\* two ids that are the same text: importData rejects the document
RepeatedId ==
  <<ArrayOf("posts", <<ObjectEntry(Obj(JNum(1), Undefined)),
                       ObjectEntry(Obj(JStr(S_1), JStr(S_x)))>>)>>

\* what a write can leave in the source file
FileContents ==
  {Json(PostsTitled(S_x)), Json(PostsTitled(S_y)), Json(RepeatedId), InvalidJson, Unreadable}

\* clearTimeout(handle): the timeout is not armed any more; no handle, nothing to clear
clearTimeout_noop(armed, handle) == armed

clearTimeout(armed, handle) ==
  IF handle = None THEN armed ELSE armed \ {handle[1]}

\* setTimeout(callback, DEBOUNCE_MS) at the time `at`
setTimeout(armed, at) == armed \cup {at + DEBOUNCE_MS}

\* an importFromJsonFile call at `await readFile`, before and after the read
Reading == [phase |-> "reading", contents |-> NoContents]

HasRead(contents) == [phase |-> "read", contents |-> contents]

WithoutRead(all, i) == [k \in 1..(Len(all) - 1) |-> IF k < i THEN all[k] ELSE all[k + 1]]

\* importFromJsonFile from the read on: readFile rejects for a file that
\* cannot be read, JSON.parse throws for a text that is no JSON, and
\* importData throws on a database that is closed or for a document it
\* rejects (the transaction rolls back)
importFromJsonFile(recs, sing, contents, open) ==
  IF contents.kind = "unreadable"
  THEN [ok |-> FALSE, error |-> "readFile", recs |-> recs, sing |-> sing]
  ELSE IF contents.kind = "invalid"
  THEN [ok |-> FALSE, error |-> "JSON.parse", recs |-> recs, sing |-> sing]
  ELSE IF ~open
  THEN [ok |-> FALSE, error |-> "closed", recs |-> recs, sing |-> sing]
  ELSE LET r == importData(recs, sing, contents.doc, NoStream)
       IN [ok |-> r.ok, error |-> IF r.ok THEN "ok" ELSE r.error,
           recs |-> r.recs, sing |-> r.sing]

\* startMocyServer / startMocyMcpServer: the file is imported, then watched
InitWatch ==
  /\ host \in {"server", "mcp"}
  /\ file = Json(PostsTitled(S_x))
  /\ records = importData(<<>>, <<>>, PostsTitled(S_x), NoStream).recs
  /\ singular = importData(<<>>, <<>>, PostsTitled(S_x), NoStream).sing
  /\ call = NoCall
  /\ rows = <<>>
  /\ query = <<>>
  /\ memResult = <<>>
  /\ sqlResult = <<>>
  /\ proc = "running"
  /\ now = 0
  /\ timer = None
  /\ pending = {}
  /\ reads = <<>>
  /\ events = <<>>
  /\ calls = <<>>

\* the file is written and chokidar emits 'change'.  watchFile's handler
\* clears the timeout and arms a new one; the MCP server's handler starts
\* importFromJsonFile.  A timeout that is due runs before the event: the
\* event loop runs its timers before its I/O callbacks.  chokidar emits
\* nothing once close() was called.
Change ==
  /\ proc = "running"
  /\ Len(events) < MaxChanges
  /\ \A due \in pending : due > now
  /\ file' \in FileContents
  /\ events' = Append(events, now)
  /\ IF host = "server"
     THEN /\ pending' = setTimeout(clearTimeout(pending, timer), now)
          /\ timer' = Some(now + DEBOUNCE_MS)
          /\ reads' = reads
     ELSE /\ reads' = Append(reads, Reading)
          /\ UNCHANGED <<timer, pending>>
  /\ UNCHANGED <<storeVars, queryVars, host, proc, now, calls>>

\* POLL_MS pass; a timeout runs when it is due
Tick ==
  /\ proc # "crashed"
  /\ now < MaxTicks * POLL_MS
  /\ \A due \in pending : due > now
  /\ now' = now + POLL_MS
  /\ UNCHANGED <<storeVars, queryVars, host, proc, timer, pending, file, reads, events, calls>>

\* the timeout's callback: void onChange(), which runs
\* store.importFromJsonFile up to its await
TimerFires ==
  /\ proc # "crashed"
  /\ \E due \in pending :
       /\ due <= now
       /\ pending' = pending \ {due}
  /\ calls' = Append(calls, now)
  /\ reads' = Append(reads, Reading)
  /\ UNCHANGED <<storeVars, queryVars, host, proc, now, timer, file, events>>

\* readFile reads the file for one of the calls
ReadFile ==
  /\ proc # "crashed"
  /\ \E i \in 1..Len(reads) :
       /\ reads[i].phase = "reading"
       /\ reads' = [reads EXCEPT ![i] = HasRead(file)]
  /\ UNCHANGED <<storeVars, queryVars, host, proc, now, timer, pending, file, events, calls>>

\* one of the calls goes on after its await.  Its promise was dropped
\* (void), so a rejection is unhandled, and the process ends with it.
Resume ==
  /\ proc # "crashed"
  /\ \E i \in 1..Len(reads) :
       /\ reads[i].phase = "read"
       /\ \E r \in {importFromJsonFile(records, singular, reads[i].contents, proc # "closed")} :
            /\ records' = r.recs
            /\ singular' = r.sing
            /\ call' = Called("importFromJsonFile", "", <<>>, EmptyObject,
                              reads[i].contents.doc, NoStream, r.error, EmptyObject, 0, 0)
            /\ proc' = IF r.ok THEN proc ELSE "crashed"
       /\ reads' = WithoutRead(reads, i)
  /\ UNCHANGED <<queryVars, host, now, timer, pending, file, events, calls>>

\* RunningServer.close() up to its first await: watcher.close(), which
\* clears watchFile's timeout and closes chokidar
CloseWatcher ==
  /\ proc = "running"
  /\ proc' = "closing"
  /\ pending' = IF host = "server" THEN clearTimeout(pending, timer) ELSE pending
  /\ UNCHANGED <<storeVars, queryVars, host, now, timer, file, reads, events, calls>>

\* RunningServer.close() after the transport has closed: store.close()
CloseStore ==
  /\ proc = "closing"
  /\ proc' = "closed"
  /\ UNCHANGED <<storeVars, queryVars, host, now, timer, pending, file, reads, events, calls>>

NextWatch ==
  \/ Change
  \/ Tick
  \/ TimerFires
  \/ ReadFile
  \/ Resume
  \/ CloseWatcher
  \/ CloseStore

WatchSpec == InitWatch /\ [][NextWatch]_vars

---------------------------------------------------------------------------
(* Properties of the reimport *)

\* a reimport has just failed for what the file held
ReimportFailed ==
  /\ call.op = "importFromJsonFile"
  /\ call.kind \notin {"ok", "closed"}

\* C23: when a reimport started by a file change fails (the file cannot be
\* read, is no JSON, or holds a document importData rejects), the store
\* keeps the state it had, and the process keeps running: the failure does
\* not leave as an unhandled error
C23_ReimportFailure ==
  ReimportFailed =>
    /\ records = call.before.recs
    /\ singular = call.before.sing
    /\ proc # "crashed"

\* the change event at events[i] is the last of its run: no later event
\* came less than DEBOUNCE_MS after it
LastOfRun(i) ==
  \A j \in (i + 1)..Len(events) : events[j] - events[i] >= DEBOUNCE_MS

\* onChange was called once at the time `at`
CalledOnceAt(at) ==
  Cardinality({k \in 1..Len(calls) : calls[k] = at}) = 1

\* every call of onChange is the one call of a run, DEBOUNCE_MS after the
\* last event of the run; and every run gets its call when its time has
\* come, unless close() came first
Debounced ==
  /\ \A k \in 1..Len(calls) :
       /\ CalledOnceAt(calls[k])
       /\ \E i \in 1..Len(events) :
            LastOfRun(i) /\ calls[k] = events[i] + DEBOUNCE_MS
  /\ proc = "running" =>
       \A i \in 1..Len(events) :
         LastOfRun(i) =>
           \/ (events[i] + DEBOUNCE_MS \in pending /\ now <= events[i] + DEBOUNCE_MS)
           \/ CalledOnceAt(events[i] + DEBOUNCE_MS)

\* C28: watchFile debounces: a run of change events, each less than 150 ms
\* after the one before, leads to exactly one onChange call, 150 ms after
\* the last event of the run; once close() was called no timeout is armed
\* and onChange is not called any more
C28_Debounce ==
  /\ [](host = "server" => Debounced)
  /\ [](proc \in {"closing", "closed"} => pending = {})
  /\ [][(proc \in {"closing", "closed"}) => (calls' = calls)]_vars

\* two events 50 ms apart were followed by one call, 150 ms after the second
C28_Witness ==
  /\ host = "server"
  /\ Len(events) = 2
  /\ events[2] - events[1] = POLL_MS
  /\ calls = <<events[2] + DEBOUNCE_MS>>

\* C29: once close() has closed the store, no reimport reads or writes it:
\* a reimport that was at its await when close() was called does not call
\* importData on the closed store
C29_NoImportAfterClose ==
  ~(call.op = "importFromJsonFile" /\ call.kind = "closed")

\* C30: reimports that overlap are applied in the order in which the
\* contents of the file were written: when all of them have finished, the
\* store holds the latest content of the file
C30_LatestContent ==
  (/\ proc = "running"
   /\ events # <<>>
   /\ reads = <<>>
   /\ pending = {}
   /\ file.kind = "json") =>
    \E latest \in {importData(<<>>, <<>>, file.doc, NoStream)} :
      /\ records = latest.recs
      /\ singular = latest.sing

===========================================================================
